---- MODULE Spec2Model ----
(***************************************************************************)
(* UFOMap OctreeBase: the sparse occupancy octree (node storage, expand /  *)
(* prune, recursive update, summary propagation, node counters).           *)
(*                                                                         *)
(* Log-odds values are integers (three units are about 0.4 = |logit(0.4)|, *)
(* so that the weighted miss prob_miss_log_ / 3 is a whole number);        *)
(* coordinates are integers counting half voxels (resolution / 2).         *)
(* An octree object is a record of its fields; a node is a record of the   *)
(* fields of InnerNode / LEAF_NODE, the child block a tuple of 8 nodes or  *)
(* NullPtr.                                                                *)
(***************************************************************************)
EXTENDS Integers, Sequences, FiniteSets, TLC

\* ------------------------------------------------------------------------
\* Bounds of the model
\* ------------------------------------------------------------------------

\* number of depth-0 cells the operations may target
MaxTargets == 4
\* number of operations in one run
MaxOps == 3

\* ------------------------------------------------------------------------
\* Construction parameters (OctreeBase constructor arguments)
\* ------------------------------------------------------------------------

depth_levels_ == 2
clamping_thres_min_log_ == -6
clamping_thres_max_log_ == 6
occupancy_thres_log_ == 0
free_thres_log_ == -5
prob_hit_log_ == 6
prob_miss_log_ == -3

NullPtr == <<>>

Pow2(n) == 2 ^ n

Pow8(n) == 8 ^ n

max_value_ == Pow2(depth_levels_ - 1)

clamp(v, lo, hi) == IF v < lo THEN lo ELSE IF hi < v THEN hi ELSE v

\* ------------------------------------------------------------------------
\* Code (Morton code plus depth) and Key
\* ------------------------------------------------------------------------

Code(c, d) == [code |-> c, depth |-> d]

getChildIdx(code, depth) == (code.code \div Pow8(depth)) % 8

toDepth(code, depth) == Code((code.code \div Pow8(depth)) * Pow8(depth), depth)

getChild(code, idx) == Code(code.code + idx * Pow8(code.depth - 1), code.depth - 1)

Bit(k, i) == (k \div Pow2(i)) % 2

RECURSIVE Interleave(_, _)
Interleave(key, i) ==
    IF i < 0 THEN 0
    ELSE (Bit(key[1], i) + 2 * Bit(key[2], i) + 4 * Bit(key[3], i)) * Pow8(i)
         + Interleave(key, i - 1)

\* Code(const Key&): interleave the three key components, drop the bits below the depth
CodeOfKey(key, depth) == toDepth(Code(Interleave(key, depth_levels_ - 1), 0), depth)

\* faulty variant of coordToKey1: the cast truncates toward zero instead of taking the floor
coordToKey1Trunc(coord, depth) ==
    LET key_value == IF coord < 0 THEN -((-coord) \div 2) ELSE coord \div 2
    IN  IF depth = 0 THEN key_value + max_value_
        ELSE (key_value \div Pow2(depth)) * Pow2(depth) + Pow2(depth - 1) + max_value_

\* coordToKey(float coord, depth), one axis; coord counts half voxels
coordToKey1(coord, depth) ==
    LET key_value == coord \div 2
    IN  IF depth = 0 THEN key_value + max_value_
        ELSE (key_value \div Pow2(depth)) * Pow2(depth) + Pow2(depth - 1) + max_value_

coordToKey(coord, depth) == << coordToKey1(coord[1], depth), coordToKey1(coord[2], depth), coordToKey1(coord[3], depth) >>

\* ------------------------------------------------------------------------
\* State predicates on a log-odds value
\* ------------------------------------------------------------------------

isOccupiedLog(logit) == occupancy_thres_log_ < logit

\* free read as "not above the occupancy threshold"
isFreeLogBelowOccupied(logit) == occupancy_thres_log_ >= logit

isFreeLog(logit) == free_thres_log_ > logit

isUnknownLog(logit) == free_thres_log_ <= logit /\ occupancy_thres_log_ >= logit

\* ------------------------------------------------------------------------
\* Nodes
\* ------------------------------------------------------------------------

\* LEAF_NODE(): value-initialised
LeafNode == [logit |-> 0]

\* InnerNode<LEAF_NODE>(): default member initialisers
InnerNode == [logit |-> 0, contains_free |-> FALSE, contains_unknown |-> TRUE, all_children_same |-> TRUE, children |-> NullPtr]

isLeaf(node) == node.all_children_same

hasChildren(node) == ~node.all_children_same

\* containsFree / containsUnknown of a child at depth child_depth
containsFree(node, depth) == IF depth = 0 THEN isFreeLog(node.logit) ELSE node.contains_free

containsUnknown(node, depth) == IF depth = 0 THEN isUnknownLog(node.logit) ELSE node.contains_unknown

\* ------------------------------------------------------------------------
\* Create / delete children.  t is the octree object (for the counters and
\* the automatic-pruning flag); results are records [node, t].
\* ------------------------------------------------------------------------

\* faulty variant of createChildren: the depth-1 branch forgets that the node stops being an inner leaf
createChildrenMiscount(inner_node, depth, t) ==
    IF inner_node.children # NullPtr
    THEN [node |-> inner_node, t |-> t]
    ELSE IF depth = 1
         THEN [node |-> [inner_node EXCEPT !.children = [i \in 1..8 |-> LeafNode],
                                           !.all_children_same = FALSE],
               t |-> [t EXCEPT !.num_leaf_nodes_ = @ + 8,
                               !.num_inner_nodes_ = @ + 1]]
         ELSE [node |-> [inner_node EXCEPT
                            !.children = [i \in 1..8 |->
                                [InnerNode EXCEPT !.contains_free = isFreeLog(InnerNode.logit),
                                                  !.contains_unknown = isUnknownLog(InnerNode.logit)]],
                            !.all_children_same = FALSE],
               t |-> [t EXCEPT !.num_inner_leaf_nodes_ = @ + 7,
                               !.num_inner_nodes_ = @ + 1]]

createChildren(inner_node, depth, t) ==
    IF inner_node.children # NullPtr
    THEN [node |-> inner_node, t |-> t]
    ELSE IF depth = 1
         THEN [node |-> [inner_node EXCEPT !.children = [i \in 1..8 |-> LeafNode],
                                           !.all_children_same = FALSE],
               t |-> [t EXCEPT !.num_leaf_nodes_ = @ + 8,
                               !.num_inner_leaf_nodes_ = @ - 1,
                               !.num_inner_nodes_ = @ + 1]]
         ELSE [node |-> [inner_node EXCEPT
                            !.children = [i \in 1..8 |->
                                [InnerNode EXCEPT !.contains_free = isFreeLog(InnerNode.logit),
                                                  !.contains_unknown = isUnknownLog(InnerNode.logit)]],
                            !.all_children_same = FALSE],
               t |-> [t EXCEPT !.num_inner_leaf_nodes_ = @ + 7,
                               !.num_inner_nodes_ = @ + 1]]

\* faulty variant of expand: the new children keep their default values
expandNoCopy(inner_node, depth, t) ==
    IF ~inner_node.all_children_same
    THEN [node |-> inner_node, t |-> t]
    ELSE createChildren(inner_node, depth, t)

expand(inner_node, depth, t) ==
    IF ~inner_node.all_children_same
    THEN [node |-> inner_node, t |-> t]
    ELSE LET c == createChildren(inner_node, depth, t)
         IN  IF depth = 1
             THEN [node |-> [c.node EXCEPT !.children =
                                [i \in 1..8 |-> [c.node.children[i] EXCEPT !.logit = inner_node.logit]]],
                   t |-> c.t]
             ELSE [node |-> [c.node EXCEPT !.children =
                                [i \in 1..8 |-> [c.node.children[i] EXCEPT
                                                    !.logit = inner_node.logit,
                                                    !.contains_free = inner_node.contains_free,
                                                    !.contains_unknown = inner_node.contains_unknown,
                                                    !.all_children_same = TRUE]]],
                   t |-> c.t]

RECURSIVE deleteChildren(_, _, _, _)
RECURSIVE deleteChildrenLoop(_, _, _, _, _)

\* the loop over the children of deleteChildren: only the counters survive,
\* the block itself is deleted afterwards
deleteChildrenLoop(children, i, child_depth, manual_pruning, t) ==
    IF i > 8 THEN t
    ELSE deleteChildrenLoop(children, i + 1, child_depth, manual_pruning,
                            deleteChildren(children[i], child_depth, manual_pruning, t).t)

deleteChildren(inner_node, depth, manual_pruning, t) ==
    LET marked == [inner_node EXCEPT !.all_children_same = TRUE]
    IN  IF inner_node.children = NullPtr \/ (~manual_pruning /\ ~t.automatic_pruning_enabled_)
        THEN [node |-> marked, t |-> t]
        ELSE IF depth = 1
             THEN [node |-> [marked EXCEPT !.children = NullPtr],
                   t |-> [t EXCEPT !.num_leaf_nodes_ = @ - 8,
                                   !.num_inner_leaf_nodes_ = @ + 1,
                                   !.num_inner_nodes_ = @ - 1]]
             ELSE LET t1 == deleteChildrenLoop(inner_node.children, 1, depth - 1, manual_pruning, t)
                  IN  [node |-> [marked EXCEPT !.children = NullPtr],
                       t |-> [t1 EXCEPT !.num_inner_leaf_nodes_ = @ - 7,
                                        !.num_inner_nodes_ = @ - 1]]

prune(inner_node, depth, manual_pruning, t) ==
    LET d == deleteChildren(inner_node, depth, manual_pruning, t)
    IN  [node |-> [d.node EXCEPT !.contains_free = isFreeLog(d.node.logit),
                                 !.contains_unknown = isUnknownLog(d.node.logit)],
         t |-> d.t]

\* ------------------------------------------------------------------------
\* Update node (summary of an inner node from its child block)
\* ------------------------------------------------------------------------

\* faulty variant of isNodeCollapsible: a block of inner nodes is never collapsible
isNodeCollapsibleLeavesOnly(children, depth) ==
    /\ depth = 1
    /\ \A i \in 2..8 : children[1].logit = children[i].logit

\* isNodeCollapsible: the children of a depth-1 node are leaves, others inner nodes
isNodeCollapsible(children, depth) ==
    IF depth = 1
    THEN \A i \in 2..8 : children[1].logit = children[i].logit
    ELSE /\ isLeaf(children[1])
         /\ \A i \in 2..8 : children[1].logit = children[i].logit /\ isLeaf(children[i])

RECURSIVE MaxFrom(_, _, _)
MaxFrom(children, i, max) ==
    IF i > 8 THEN max
    ELSE MaxFrom(children, i + 1, IF max < children[i].logit THEN children[i].logit ELSE max)

\* faulty variant of getMaxChildLogit: the loop over the children is missing
getMaxChildLogitFirst(children) == children[1].logit

\* starts from children[0].logit (leaf array) or from lowest() (inner array)
getMaxChildLogit(children) == MaxFrom(children, 2, children[1].logit)

updateNode(node, depth, t) ==
    IF isNodeCollapsible(node.children, depth)
    THEN LET p == prune([node EXCEPT !.logit = node.children[1].logit], depth, FALSE, t)
         IN  [node |-> p.node, changed |-> TRUE, t |-> p.t]
    ELSE LET new_logit == getMaxChildLogit(node.children)
             new_contains_free == \E i \in 1..8 : containsFree(node.children[i], depth - 1)
             new_contains_unknown == \E i \in 1..8 : containsUnknown(node.children[i], depth - 1)
         IN  IF \/ node.logit # new_logit
                \/ node.contains_free # new_contains_free
                \/ node.contains_unknown # new_contains_unknown
             THEN [node |-> [node EXCEPT !.logit = new_logit,
                                         !.contains_free = new_contains_free,
                                         !.contains_unknown = new_contains_unknown],
                   changed |-> TRUE, t |-> t]
             ELSE [node |-> node, changed |-> FALSE, t |-> t]

\* ------------------------------------------------------------------------
\* Lookup
\* ------------------------------------------------------------------------

RECURSIVE getNodeFrom(_, _, _, _)
\* the loop of getNode: current_node is the node reached at depth
getNodeFrom(current_node, depth, code, return_nullptr) ==
    IF depth > code.depth
    THEN IF ~hasChildren(current_node)
         THEN IF return_nullptr
              THEN [node |-> NullPtr, code |-> Code(0, 0)]
              ELSE [node |-> current_node, code |-> toDepth(code, depth + 1)]
         ELSE getNodeFrom(current_node.children[getChildIdx(code, depth - 1) + 1],
                          depth - 1, code, return_nullptr)
    ELSE [node |-> current_node, code |-> code]

getNode(t, code, return_nullptr) == getNodeFrom(t.root_, depth_levels_, code, return_nullptr)

\* ------------------------------------------------------------------------
\* Update node value
\* ------------------------------------------------------------------------

\* faulty variant of addLogit: the sum is stored unclamped
addLogitUnclamped(logit, logit_value) == logit + logit_value

\* the clamped log-odds addition at the target node
addLogit(logit, logit_value) == clamp(logit + logit_value, clamping_thres_min_log_, clamping_thres_max_log_)

RECURSIVE updateNodeValueRecurs(_, _, _, _, _, _)
RECURSIVE updateChildrenLoop(_, _, _, _, _, _, _)

\* the loop over the eight children in the additive branch at the target depth
updateChildrenLoop(code, logit_value, children, child_idx, child_depth, set_value, t) ==
    IF child_idx > 7 THEN [children |-> children, t |-> t]
    ELSE LET r == updateNodeValueRecurs(getChild(code, child_idx), logit_value,
                                        children[child_idx + 1], child_depth, set_value, t)
         IN  updateChildrenLoop(code, logit_value,
                                [children EXCEPT ![child_idx + 1] = r.node],
                                child_idx + 1, child_depth, set_value, r.t)

insertChanged(t, code) ==
    IF t.change_detection_enabled_
    THEN [t EXCEPT !.changed_codes_ = @ \cup {code}]
    ELSE t

updateNodeValueRecurs(code, logit_value, node, current_depth, set_value, t) ==
    IF current_depth > code.depth
    THEN LET e == expand(node, current_depth, t)
             child_depth == current_depth - 1
             child_idx == getChildIdx(code, child_depth)
             r == updateNodeValueRecurs(code, logit_value, e.node.children[child_idx + 1],
                                        child_depth, set_value, e.t)
             inner_node == [e.node EXCEPT !.children[child_idx + 1] = r.node]
         IN  IF r.changed
             THEN LET u == updateNode(inner_node, current_depth, r.t)
                  IN  [node |-> u.node, changed |-> u.changed,
                       t |-> IF u.changed THEN insertChanged(u.t, toDepth(code, current_depth))
                             ELSE u.t]
             ELSE [node |-> inner_node, changed |-> FALSE, t |-> r.t]
    ELSE IF set_value
         THEN LET set == [node EXCEPT !.logit = clamp(logit_value, clamping_thres_min_log_,
                                                      clamping_thres_max_log_)]
                  p == IF 0 < current_depth THEN prune(set, current_depth, FALSE, t)
                       ELSE [node |-> set, t |-> t]
              IN  [node |-> p.node, changed |-> TRUE, t |-> insertChanged(p.t, code)]
         ELSE LET upd == [node EXCEPT !.logit = addLogit(node.logit, logit_value)]
                  p == IF 0 < current_depth
                       THEN IF ~isOccupiedLog(upd.logit)
                            THEN prune(upd, current_depth, FALSE, t)
                            ELSE IF hasChildren(upd)
                                 THEN LET l == updateChildrenLoop(code, logit_value, upd.children,
                                                                  0, current_depth - 1, set_value, t)
                                          u == updateNode([upd EXCEPT !.children = l.children],
                                                          current_depth, l.t)
                                      IN  [node |-> u.node, t |-> u.t]
                                 ELSE [node |-> upd, t |-> t]
                       ELSE [node |-> upd, t |-> t]
              IN  [node |-> p.node, changed |-> TRUE, t |-> insertChanged(p.t, code)]

setNodeValue(t, code, logit_value) ==
    LET v == clamp(logit_value, clamping_thres_min_log_, clamping_thres_max_log_)
        node == getNode(t, code, FALSE)
    IN  IF v # node.node.logit
        THEN LET r == updateNodeValueRecurs(code, v, t.root_, depth_levels_, TRUE, t)
             IN  [r.t EXCEPT !.root_ = r.node]
        ELSE t

updateNodeValue(t, code, logit_update) ==
    LET node == getNode(t, code, FALSE)
    IN  IF \/ (0 <= logit_update /\ node.node.logit >= clamping_thres_max_log_)
           \/ (0 >= logit_update /\ node.node.logit <= clamping_thres_min_log_)
        THEN t
        ELSE LET r == updateNodeValueRecurs(code, logit_update, t.root_, depth_levels_, FALSE, t)
             IN  [r.t EXCEPT !.root_ = r.node]

integrateHit(t, code) == updateNodeValue(t, code, prob_hit_log_)

integrateMiss(t, code) == updateNodeValue(t, code, prob_miss_log_)

\* ------------------------------------------------------------------------
\* Clear
\* ------------------------------------------------------------------------

RECURSIVE clearRecurs(_, _, _)
RECURSIVE clearChildrenLoop(_, _, _, _)

clearChildrenLoop(children, i, child_depth, t) ==
    IF i > 8 THEN [children |-> children, t |-> t]
    ELSE LET r == clearRecurs(children[i], child_depth, t)
         IN  clearChildrenLoop([children EXCEPT ![i] = r.node], i + 1, child_depth, r.t)

clearRecurs(inner_node, current_depth, t) ==
    IF inner_node.children = NullPtr
    THEN [node |-> inner_node, t |-> t]
    ELSE IF 1 < current_depth
         THEN LET l == clearChildrenLoop(inner_node.children, 1, current_depth - 1, t)
              IN  deleteChildren([inner_node EXCEPT !.children = l.children],
                                 current_depth, TRUE, l.t)
         ELSE deleteChildren(inner_node, current_depth, TRUE, t)

\* clear(): clear(resolution_, depth_levels_)
clear(t) == [clearRecurs(t.root_, depth_levels_, t).t EXCEPT !.root_ = InnerNode]

size(t) == t.num_inner_nodes_ + t.num_inner_leaf_nodes_ + t.num_leaf_nodes_

\* ------------------------------------------------------------------------
\* Clear area
\* ------------------------------------------------------------------------

\* the values a loop "for (x = lo; x <= hi; x += inc)" takes, in order
RECURSIVE LoopValues(_, _, _)
LoopValues(lo, hi, inc) == IF lo > hi THEN << >> ELSE << lo >> \o LoopValues(lo + inc, hi, inc)

\* the keys of the three nested loops of clearAreaBBX, in call order
BBXKeys(bbx_min_key, bbx_max_key, inc) ==
    LET xs == LoopValues(bbx_min_key[1], bbx_max_key[1], inc)
        ys == LoopValues(bbx_min_key[2], bbx_max_key[2], inc)
        zs == LoopValues(bbx_min_key[3], bbx_max_key[3], inc)
        n == Len(xs) * Len(ys) * Len(zs)
    IN  [i \in 1..n |-> << xs[((i - 1) \div (Len(ys) * Len(zs))) + 1],
                           ys[(((i - 1) \div Len(zs)) % Len(ys)) + 1],
                           zs[((i - 1) % Len(zs)) + 1] >>]

RECURSIVE setKeysLoop(_, _, _, _)
setKeysLoop(t, keys, i, depth) ==
    IF i > Len(keys) THEN t
    ELSE setKeysLoop(setNodeValue(t, CodeOfKey(keys[i], depth), clamping_thres_min_log_),
                     keys, i + 1, depth)

clearAreaBBX(t, bbx_min, bbx_max, depth) ==
    setKeysLoop(t, BBXKeys(coordToKey(bbx_min, depth), coordToKey(bbx_max, depth), Pow2(depth)), 1, depth)

\* ------------------------------------------------------------------------
\* Rays and point clouds.  A time t along the ray from origin towards
\* origin + v is kept as the integer t * Scale(v) / |v|, so that the
\* origin-to-end distance |v| is kept as Scale(v).
\* ------------------------------------------------------------------------

\* std::numeric_limits<float>::max(), above every time of a ray in the map
FloatMax == 1000000

\* nodes_sizes_[depth], nodes_half_sizes_[depth], in half voxels
getNodeSize(depth) == 2 * Pow2(depth)

getNodeHalfSize(depth) == Pow2(depth)

getMin == << -getNodeHalfSize(depth_levels_), -getNodeHalfSize(depth_levels_), -getNodeHalfSize(depth_levels_) >>

getMax == << getNodeHalfSize(depth_levels_), getNodeHalfSize(depth_levels_), getNodeHalfSize(depth_levels_) >>

keyToCoord1(key, depth) ==
    IF depth_levels_ = depth THEN 0
    ELSE (2 * ((key - max_value_) \div Pow2(depth)) + 1) * getNodeHalfSize(depth)

keyToCoord(key, depth) == << keyToCoord1(key[1], depth), keyToCoord1(key[2], depth), keyToCoord1(key[3], depth) >>

Abs(x) == IF x < 0 THEN -x ELSE x

Sign(x) == IF 0 < x THEN 1 ELSE IF 0 > x THEN -1 ELSE 0

\* the factor that makes every time of the ray along v an integer
Scale(v) ==
    LET f(x) == IF x = 0 THEN 1 ELSE Abs(x)
    IN  f(v[1]) * f(v[2]) * f(v[3])

\* Vector3::min, Vector3::minElementIndex (here 1..3)
min(data_) == IF data_[1] <= data_[2] THEN (IF data_[1] <= data_[3] THEN data_[1] ELSE data_[3])
              ELSE (IF data_[2] <= data_[3] THEN data_[2] ELSE data_[3])

minElementIndex(data_) ==
    IF data_[1] <= data_[2] THEN (IF data_[1] <= data_[3] THEN 1 ELSE 3)
    ELSE (IF data_[2] <= data_[3] THEN 2 ELSE 3)

\* getIntersection: whether the segment crosses the plane (the sign test only)
getIntersection(d_1, d_2) == ~(0 <= d_1 * d_2)

\* whether the segment crosses one of the six face planes of the map
CrossesFace(origin, end) ==
    \E i \in 1..3 : \/ getIntersection(origin[i] - getMin[i], end[i] - getMin[i])
                    \/ getIntersection(origin[i] - getMax[i], end[i] - getMax[i])

\* getIntersection: the point where the segment meets the plane; the
\* quotient is a whole number for the segments the model draws
getIntersectionHit(d_1, d_2, p_1, p_2) ==
    [i \in 1..3 |-> p_1[i] + ((p_2[i] - p_1[i]) * (-d_1)) \div (d_2 - d_1)]

\* inBBX(point, axis, bbx_min, bbx_max): strictly inside on the other two axes (axis here 1..3)
inBBXAxis(point, axis, bbx_min, bbx_max) ==
    \A i \in (1..3) \ {axis} : point[i] > bbx_min[i] /\ point[i] < bbx_max[i]

\* inBBX(coord)
inBBX(t, coord) ==
    LET bbx_min == IF t.bbx_limit_enabled_ THEN t.bbx_min_ ELSE getMin
        bbx_max == IF t.bbx_limit_enabled_ THEN t.bbx_max_ ELSE getMax
    IN  \A i \in 1..3 : bbx_min[i] <= coord[i] /\ bbx_max[i] >= coord[i]

RECURSIVE hitsLoop(_, _, _, _, _, _, _)
\* one of the two loops of moveLineIntoBBX over the axes: plane is bbx_min or
\* bbx_max, hit the hits found so far
hitsLoop(plane, bbx_min, bbx_max, origin, end, i, hit) ==
    IF i > 3 \/ Len(hit) >= 2 THEN hit
    ELSE LET d_1 == origin[i] - plane[i]
             d_2 == end[i] - plane[i]
         IN  hitsLoop(plane, bbx_min, bbx_max, origin, end, i + 1,
                      IF /\ getIntersection(d_1, d_2)
                         /\ inBBXAxis(getIntersectionHit(d_1, d_2, origin, end), i, bbx_min, bbx_max)
                      THEN Append(hit, getIntersectionHit(d_1, d_2, origin, end))
                      ELSE hit)

squaredNorm(data_) == data_[1] * data_[1] + data_[2] * data_[2] + data_[3] * data_[3]

Minus(a, b) == << a[1] - b[1], a[2] - b[2], a[3] - b[3] >>

\* moveLineIntoBBX(bbx_min, bbx_max, origin, end)
moveLineIntoBBX4(t, bbx_min, bbx_max, origin, end) ==
    IF \E i \in 1..3 : \/ (origin[i] < bbx_min[i] /\ end[i] < bbx_min[i])
                       \/ (origin[i] > bbx_max[i] /\ end[i] > bbx_max[i])
    THEN [inside |-> FALSE, origin |-> origin, end |-> end]
    ELSE LET hit == hitsLoop(bbx_max, bbx_min, bbx_max, origin, end, 1,
                             hitsLoop(bbx_min, bbx_min, bbx_max, origin, end, 1, << >>))
         IN  IF Len(hit) = 1
             THEN IF inBBX(t, origin)
                  THEN [inside |-> TRUE, origin |-> origin, end |-> hit[1]]
                  ELSE [inside |-> TRUE, origin |-> hit[1], end |-> end]
             ELSE IF Len(hit) = 2
                  THEN IF squaredNorm(Minus(origin, hit[1])) + squaredNorm(Minus(end, hit[2]))
                             <= squaredNorm(Minus(origin, hit[2])) + squaredNorm(Minus(end, hit[1]))
                       THEN [inside |-> TRUE, origin |-> hit[1], end |-> hit[2]]
                       ELSE [inside |-> TRUE, origin |-> hit[2], end |-> hit[1]]
                  ELSE [inside |-> TRUE, origin |-> origin, end |-> end]

\* moveLineIntoBBX(origin, end)
moveLineIntoBBX(t, origin, end) ==
    moveLineIntoBBX4(t, IF t.bbx_limit_enabled_ THEN t.bbx_min_ ELSE getMin,
                     IF t.bbx_limit_enabled_ THEN t.bbx_max_ ELSE getMax, origin, end)

\* direction is v, not normalised (see Scale)
computeRayInit(origin, end, direction, depth) ==
    LET current == coordToKey(origin, depth)
        ending == coordToKey(end, depth)
        voxel_border == keyToCoord(current, depth)
        step == << Sign(direction[1]), Sign(direction[2]), Sign(direction[3]) >>
        delta(i) == IF step[i] # 0
                    THEN getNodeSize(depth) * (Scale(direction) \div Abs(direction[i]))
                    ELSE FloatMax
        tmax(i) == IF step[i] # 0
                   THEN (voxel_border[i] + step[i] * getNodeHalfSize(depth) - origin[i])
                            * step[i] * (Scale(direction) \div Abs(direction[i]))
                   ELSE FloatMax
    IN  [current |-> current, ending |-> ending, step |-> step,
         t_delta |-> << delta(1), delta(2), delta(3) >>,
         t_max |-> << tmax(1), tmax(2), tmax(3) >>]

computeRayTakeStep(ray, depth) ==
    LET advance_dim == minElementIndex(ray.t_max)
    IN  [ray EXCEPT !.current[advance_dim] = @ + ray.step[advance_dim] * Pow2(depth),
                    !.t_max[advance_dim] = @ + ray.t_delta[advance_dim]]

\* indices_[code] = value
assign(indices, code, value) ==
    [c \in (DOMAIN indices) \cup {code} |-> IF c = code THEN value ELSE indices[c]]

\* indices_.try_emplace(code, value)
try_emplace(indices, code, value) == IF code \in DOMAIN indices THEN indices ELSE assign(indices, code, value)

RECURSIVE computeUpdateRay(_, _, _)
\* the while loop of computeUpdate over one ray
computeUpdateRay(ray, distance, indices) ==
    IF ray.current # ray.ending /\ min(ray.t_max) <= distance
    THEN computeUpdateRay(computeRayTakeStep(ray, 0), distance,
                          try_emplace(indices, CodeOfKey(ray.current, 0), prob_miss_log_))
    ELSE indices

RECURSIVE computeUpdateLoop(_, _, _, _, _, _)
\* the loop of computeUpdate over the points of the cloud; origin + dir *
\* max_range is origin + Sign(v) * max_range for max_range = 0 and for rays
\* parallel to an axis, the rays a range limit is used with
computeUpdateLoop(t, sensor_origin, cloud, max_range, i, indices) ==
    IF i > Len(cloud) THEN indices
    ELSE LET origin == sensor_origin
             v == << cloud[i][1] - origin[1], cloud[i][2] - origin[2], cloud[i][3] - origin[3] >>
             end == IF 0 <= max_range
                       /\ v[1] * v[1] + v[2] * v[2] + v[3] * v[3] > max_range * max_range
                    THEN << origin[1] + Sign(v[1]) * max_range, origin[2] + Sign(v[2]) * max_range,
                            origin[3] + Sign(v[3]) * max_range >>
                    ELSE cloud[i]
             m == moveLineIntoBBX(t, origin, end)
             hit == IF cloud[i] = m.end
                    THEN assign(indices, CodeOfKey(coordToKey(m.end, 0), 0), prob_hit_log_)
                    ELSE indices
         IN  IF ~m.inside
             THEN computeUpdateLoop(t, sensor_origin, cloud, max_range, i + 1, indices)
             ELSE computeUpdateLoop(t, sensor_origin, cloud, max_range, i + 1,
                                    computeUpdateRay(computeRayInit(m.origin, m.end, v, 0), Scale(v), hit))

computeUpdate(t, sensor_origin, cloud, max_range) == computeUpdateLoop(t, sensor_origin, cloud, max_range, 1, << >>)

\* the orders in which a loop over an unordered map can visit its entries
IterationOrders(indices) ==
    { order \in [1..Cardinality(DOMAIN indices) -> DOMAIN indices] :
        \A i, j \in 1..Cardinality(DOMAIN indices) : i # j => order[i] # order[j] }

RECURSIVE drainIndices(_, _, _, _)
\* the loop of insertPointCloud over indices_, visited in the given order
drainIndices(t, indices, order, i) ==
    IF i > Len(order) THEN t
    ELSE drainIndices(updateNodeValue(t, order[i], indices[order[i]]), indices, order, i + 1)

\* insertPointCloud; order is the iteration order of indices_
insertPointCloud(t, sensor_origin, cloud, max_range, order) ==
    drainIndices(t, computeUpdate(t, sensor_origin, cloud, max_range), order, 1)

\* the calls updateNodeValue(code, value) of the loop over indices_, in the given order
drainCalls(indices, order) == [i \in 1..Len(order) |-> << order[i], indices[order[i]] >>]

RECURSIVE applyCalls(_, _, _)
\* the tree after the calls updateNodeValue(calls[i][1], calls[i][2]), i, i + 1, ...
applyCalls(t, calls, i) ==
    IF i > Len(calls) THEN t
    ELSE applyCalls(updateNodeValue(t, calls[i][1], calls[i][2]), calls, i + 1)

\* ------------------------------------------------------------------------
\* insertPointCloudDiscrete.  A Key is its three components and its depth;
\* two keys of one depth are the same key when they name the same cell.
\* ------------------------------------------------------------------------

Key(key, depth) == [key |-> key, depth |-> depth]

RECURSIVE Deinterleave(_, _, _)
Deinterleave(c, axis, i) ==
    IF i < 0 THEN 0
    ELSE Bit(c, 3 * i + axis - 1) * Pow2(i) + Deinterleave(c, axis, i - 1)

\* Code::toKey
toKey(code) ==
    Key(<< Deinterleave(code.code, 1, depth_levels_ - 1), Deinterleave(code.code, 2, depth_levels_ - 1),
           Deinterleave(code.code, 3, depth_levels_ - 1) >>, code.depth)

\* Code(key) for a key that carries its depth
CodeOf(key) == CodeOfKey(key.key, key.depth)

\* the length of a vector that is parallel to an axis (or null)
norm(data_) == Abs(data_[1]) + Abs(data_[2]) + Abs(data_[3])

RECURSIVE discretePointsLoop(_, _, _, _, _, _, _, _)
\* the loop of insertPointCloudDiscrete over the points of the cloud; acc holds
\* temp, discrete, indices_ and the codes integrateHit was called with, in order
discretePointsLoop(t, sensor_origin, cloud, max_range, n, depth, i, acc) ==
    IF i > Len(cloud) THEN acc
    ELSE LET point_key == coordToKey(cloud[i], 0)
             changed_point == keyToCoord(point_key, 0)
             origin == sensor_origin
             v == Minus(changed_point, origin)
             end == IF 0 <= max_range /\ squaredNorm(v) > max_range * max_range
                    THEN << origin[1] + Sign(v[1]) * max_range, origin[2] + Sign(v[2]) * max_range,
                            origin[3] + Sign(v[3]) * max_range >>
                    ELSE changed_point
             m == moveLineIntoBBX(t, origin, end)
             changed_end == coordToKey(m.end, 0)
             seen == [acc EXCEPT !.temp = @ \cup {point_key}]
             pushed == [seen EXCEPT !.discrete = Append(@, Key(changed_end, 0))]
         IN  IF point_key \in acc.temp \/ ~m.inside
             THEN discretePointsLoop(t, sensor_origin, cloud, max_range, n, depth, i + 1, seen)
             ELSE IF changed_point # m.end
                  THEN discretePointsLoop(t, sensor_origin, cloud, max_range, n, depth, i + 1, pushed)
                  ELSE IF 0 = n /\ 0 # depth
                       THEN discretePointsLoop(t, sensor_origin, cloud, max_range, n, depth, i + 1,
                                [pushed EXCEPT !.hits = Append(@, CodeOfKey(changed_end, 0))])
                       ELSE IF CodeOfKey(changed_end, 0) \in DOMAIN acc.indices
                            THEN discretePointsLoop(t, sensor_origin, cloud, max_range, n, depth, i + 1, seen)
                            ELSE discretePointsLoop(t, sensor_origin, cloud, max_range, n, depth, i + 1,
                                     [pushed EXCEPT !.indices = try_emplace(@, CodeOfKey(changed_end, 0), prob_hit_log_)])

RECURSIVE coarsenKeys(_, _, _, _, _)
\* the loop over previous: the unique keys at depth d go to discrete, each
\* with its keys of previous in discrete_map
coarsenKeys(previous, i, d, discrete, discrete_map) ==
    IF i > Len(previous) THEN [discrete |-> discrete, discrete_map |-> discrete_map]
    ELSE LET key_at_depth == toKey(toDepth(CodeOf(previous[i]), d))
             empty == CodeOf(key_at_depth) \notin DOMAIN discrete_map
         IN  coarsenKeys(previous, i + 1, d,
                         IF empty THEN Append(discrete, key_at_depth) ELSE discrete,
                         assign(discrete_map, CodeOf(key_at_depth),
                                (IF empty THEN << >> ELSE discrete_map[CodeOf(key_at_depth)]) \o << previous[i] >>))

RECURSIVE coarsenLoop(_, _, _, _)
\* the loop "for (d = (0 == n ? depth : 1); d <= depth; ++d)"
coarsenLoop(d, depth, discrete, discrete_map) ==
    IF d > depth THEN [discrete |-> discrete, discrete_map |-> discrete_map]
    ELSE LET r == coarsenKeys(discrete, 1, d, << >>, discrete_map)
         IN  coarsenLoop(d + 1, depth, r.discrete, r.discrete_map)

\* prob_miss_log_ / float((2.0 * depth) + 1)
weightedMiss(depth) == -((-prob_miss_log_) \div (2 * depth + 1))

RECURSIVE marchLoop(_, _, _, _, _, _, _)
\* the while loop of computeUpdateDiscrete for a key above depth 0; dir is the
\* direction of a ray parallel to an axis
marchLoop(key, dir, current, last, step, num_steps, indices) ==
    IF CodeOfKey(coordToKey(current, key.depth), key.depth) # CodeOf(key) /\ step <= num_steps
    THEN marchLoop(key, dir,
                   << current[1] + dir[1] * getNodeSize(key.depth), current[2] + dir[2] * getNodeSize(key.depth),
                      current[3] + dir[3] * getNodeSize(key.depth) >>,
                   current, step + 1, num_steps,
                   try_emplace(indices, CodeOfKey(coordToKey(current, key.depth), key.depth), weightedMiss(key.depth)))
    ELSE [current |-> current, last |-> last, indices |-> indices]

RECURSIVE computeUpdateDiscrete(_, _, _, _, _, _)
\* computeUpdateDiscrete(sensor_origin, current, discrete_map, n), from the i-th key of current on
computeUpdateDiscrete(sensor_origin, current, i, discrete_map, n, indices) ==
    IF i > Len(current) THEN indices
    ELSE LET key == current[i]
             end == keyToCoord(key.key, key.depth)
             v == Minus(end, sensor_origin)
         IN  IF 0 = key.depth
             THEN computeUpdateDiscrete(sensor_origin, current, i + 1, discrete_map, n,
                      computeUpdateRay(computeRayInit(sensor_origin, end, v, 0), Scale(v), indices))
             ELSE LET dir == << Sign(v[1]), Sign(v[2]), Sign(v[3]) >>
                      num_steps == (norm(v) \div getNodeSize(key.depth)) - n
                      w == marchLoop(key, dir, sensor_origin, sensor_origin, 0, num_steps, indices)
                  IN  computeUpdateDiscrete(sensor_origin, current, i + 1, discrete_map, n,
                          IF 0 = n
                          THEN try_emplace(w.indices, CodeOfKey(coordToKey(w.current, key.depth), key.depth),
                                           weightedMiss(key.depth))
                          ELSE computeUpdateDiscrete(w.last, discrete_map[CodeOf(key)], 1, discrete_map, n, w.indices))

\* indices_ and the integrateHit codes of one insertPointCloudDiscrete call;
\* acc (the loop over the cloud) and c (the keys at the coarser depths) are
\* each computed once, as the members of one-element sets
discreteUpdate(t, sensor_origin, cloud, max_range, n, depth) ==
    CHOOSE u \in
        { [hits |-> acc.hits,
           indices |->
               CHOOSE indices \in
                   { computeUpdateDiscrete(sensor_origin, c.discrete, 1, c.discrete_map, n, acc.indices) :
                       c \in { IF 0 # depth
                               THEN coarsenLoop(IF 0 = n THEN depth ELSE 1, depth, acc.discrete, << >>)
                               ELSE [discrete |-> acc.discrete, discrete_map |-> << >>] } } : TRUE] :
            acc \in { discretePointsLoop(t, sensor_origin, cloud, max_range, n, depth, 1,
                                         [temp |-> {}, discrete |-> << >>, indices |-> << >>, hits |-> << >>]) } } :
        TRUE

\* the updateNodeValue calls of insertPointCloudDiscrete: the integrateHit
\* calls of the loop over the cloud, then the loop over indices_ in the given order
discreteCalls(t, sensor_origin, cloud, max_range, n, depth, order) ==
    CHOOSE calls \in
        { [i \in 1..Len(u.hits) |-> << u.hits[i], prob_hit_log_ >>] \o drainCalls(u.indices, order) :
            u \in { discreteUpdate(t, sensor_origin, cloud, max_range, n, depth) } } : TRUE

insertPointCloudDiscrete(t, sensor_origin, cloud, max_range, n, depth, order) ==
    applyCalls(t, discreteCalls(t, sensor_origin, cloud, max_range, n, depth, order), 1)

\* ------------------------------------------------------------------------
\* Ray queries.  direction is an integer vector v, not normalised, and a
\* non-negative max_range is in the time units of the ray along v (see
\* Scale): max_range = Scale(v) is the distance |v|.
\* ------------------------------------------------------------------------

RECURSIVE computeRayLoop(_, _, _, _)
\* the while loop of computeRay: limit is what min(t_max) is compared with
computeRayLoop(ray, limit, depth, key_ray) ==
    IF ray.current # ray.ending /\ min(ray.t_max) <= limit
    THEN computeRayLoop(computeRayTakeStep(ray, depth), limit, depth, Append(key_ray, ray.current))
    ELSE key_ray

\* origin + direction * max_range
alongRay(origin, v, max_range) == [i \in 1..3 |-> origin[i] + (v[i] * max_range) \div Scale(v)]

\* computeRay(origin, end, ray, max_range, depth): the keys appended to ray
computeRay(t, origin, end, max_range, depth) ==
    LET direction == Minus(end, origin)
        cut == IF 0 <= max_range /\ max_range < Scale(direction)
               THEN alongRay(origin, direction, max_range)
               ELSE end
        m == moveLineIntoBBX(t, origin, cut)
    IN  IF ~m.inside THEN << >>
        ELSE computeRayLoop(computeRayInit(m.origin, m.end, direction, depth), max_range, depth, << >>)

RECURSIVE integrateMissKeys(_, _, _)
\* the loop of insertMissOnRay over the keys of the ray
integrateMissKeys(t, key_ray, i) ==
    IF i > Len(key_ray) THEN t
    ELSE integrateMissKeys(integrateMiss(t, CodeOf(key_ray[i])), key_ray, i + 1)

\* the keys of a ray with their depth
keysAt(key_ray, depth) == [i \in 1..Len(key_ray) |-> Key(key_ray[i], depth)]

insertMissOnRay(t, origin, end, max_range, depth) ==
    integrateMissKeys(t, keysAt(computeRay(t, origin, end, max_range, depth), depth), 1)

\* whether every component of the key names a cell of the map
inMap(key) == \A i \in 1..3 : 0 <= key[i] /\ key[i] < 2 * max_value_

\* the logit isOccupied(key) and isUnknown(key) read; outside is what they
\* read for a key that names no cell of the map
logitOfKey(t, key, depth, outside) ==
    IF inMap(key) THEN getNode(t, CodeOfKey(key, depth), FALSE).node.logit ELSE outside

RECURSIVE castRayLoop(_, _, _, _, _, _)
\* the while loop of castRay
castRayLoop(t, ray, max_range, ignore_unknown, depth, outside) ==
    IF /\ ray.current # ray.ending
       /\ min(ray.t_max) <= max_range
       /\ ~isOccupiedLog(logitOfKey(t, ray.current, depth, outside))
       /\ (ignore_unknown \/ ~isUnknownLog(logitOfKey(t, ray.current, depth, outside)))
    THEN castRayLoop(t, computeRayTakeStep(ray, depth), max_range, ignore_unknown, depth, outside)
    ELSE ray

\* the whole part of the square root
Isqrt(n) == CHOOSE k \in 0..n : k * k <= n /\ n < (k + 1) * (k + 1)

\* getMin().distance(getMax()), rounded down: times are whole numbers
defaultRange == Isqrt(squaredNorm(Minus(getMax, getMin)))

\* castRay(origin, direction, end, ignore_unknown, max_range, depth): the
\* value returned and end (set is FALSE when end is left as it was); the
\* default max_range is for a direction along an axis
castRay(t, origin, direction, ignore_unknown, max_range, depth, outside) ==
    LET range == IF 0 > max_range THEN defaultRange ELSE max_range
        the_end == alongRay(origin, direction, range)
        m == moveLineIntoBBX(t, origin, the_end)
        ray == castRayLoop(t, computeRayInit(m.origin, m.end, direction, depth),
                           range, ignore_unknown, depth, outside)
    IN  IF ~m.inside THEN [value |-> FALSE, set |-> FALSE, end |-> << 0, 0, 0 >>, current |-> << 0, 0, 0 >>]
        ELSE [value |-> isOccupiedLog(logitOfKey(t, ray.current, depth, outside)), set |-> TRUE,
              end |-> keyToCoord(ray.current, depth), current |-> ray.current]

\* isLeaf(const Node<LEAF_NODE>&)
isLeafNode(node) == IF 0 = node.code.depth THEN TRUE ELSE isLeaf(node.node)

\* getChild(node, child_idx): thrown, or the node returned; the child code
\* of a depth-0 code is not a code of the tree, the node returned for it is
\* left open
getChildNode(t, node, child_idx) ==
    IF ~isLeafNode(node) THEN [thrown |-> TRUE]
    ELSE IF 7 < child_idx THEN [thrown |-> TRUE]
    ELSE IF 0 = node.code.depth THEN [thrown |-> FALSE, code |-> Code(-1, -1)]
    ELSE [thrown |-> FALSE, code |-> getChild(node.code, child_idx),
          node |-> getNode(t, getChild(node.code, child_idx), FALSE)]

\* ------------------------------------------------------------------------
\* The octree object and the operations on it
\* ------------------------------------------------------------------------

\* tree: the octree object the operations are called on
\* twin: a second octree object, constructed with automatic pruning disabled
\* ref:  the flat map from depth-0 cells to log-odds the tree stands for
\* ops:  number of operations called so far
\* stream: the bytes of the stream last written
\* out:  what the last query or point-cloud call returned
VARIABLES tree, twin, ref, ops, stream, out

vars == << tree, twin, ref, ops, stream, out >>

\* no call has returned anything yet
NoCall == [op |-> "none"]

\* OctreeBase(resolution, depth_levels, automatic_pruning, ...)
OctreeBase(automatic_pruning) ==
    [root_ |-> InnerNode,
     num_inner_nodes_ |-> 0,
     num_inner_leaf_nodes_ |-> 1,
     num_leaf_nodes_ |-> 0,
     automatic_pruning_enabled_ |-> automatic_pruning,
     change_detection_enabled_ |-> FALSE,
     changed_codes_ |-> {},
     bbx_limit_enabled_ |-> FALSE,
     bbx_min_ |-> << 0, 0, 0 >>,
     bbx_max_ |-> << 0, 0, 0 >>]

AllCells == { Code(c, 0) : c \in 0..(Pow8(depth_levels_) - 1) }

Descendants(code) == { x \in AllCells : toDepth(x, code.depth) = code }

\* the cells the operations are called with: the first cells of the first
\* two children of the root, taken alternately
LeafCodes == { Code(8 * (i % 2) + (i \div 2), 0) : i \in 0..(MaxTargets - 1) }

InnerCodes == { toDepth(c, d) : c \in LeafCodes, d \in 1..depth_levels_ }

Codes == LeafCodes \cup InnerCodes

LogitUpdates == {-6, 0, 3}

LogitValues == {clamping_thres_min_log_ - 3, -3, 0, 3, clamping_thres_max_log_ + 3}

\* the sensor sits in the centre of the first cell of the map
SensorOrigin == << -3, -3, -3 >>

\* end points: the centre of the next cell along +x, the centre of the next
\* cell along the diagonal of the x-y plane, and the sensor's own position
CloudPoints == { << -1, -3, -3 >>, << -1, -1, -3 >>, << -3, -3, -3 >> }

\* clouds of one point, or of two end points other than the sensor's position
\* in either order; no ray crosses a face of the map
Clouds ==
    { cloud \in { << p >> : p \in CloudPoints } \cup { << p, q >> : p \in CloudPoints, q \in CloudPoints } :
        /\ Len(cloud) = 2 => cloud[1] # cloud[2] /\ cloud[1] # SensorOrigin /\ cloud[2] # SensorOrigin
        /\ \A i \in 1..Len(cloud) : ~CrossesFace(SensorOrigin, cloud[i]) }

\* unlimited range, or range 0 (every ray is cut back to the sensor's position)
MaxRanges == {-1, 0}

Init ==
    /\ tree = OctreeBase(TRUE)
    /\ twin = OctreeBase(FALSE)
    /\ ref = [x \in AllCells |-> InnerNode.logit]
    /\ ops = 0
    /\ stream = << >>
    /\ out = NoCall

Call(t) ==
    /\ ops < MaxOps
    /\ ops' = ops + 1
    /\ tree' = t
    /\ UNCHANGED << twin, ref, stream, out >>

UpdateNodeValue == \E code \in Codes, logit_update \in LogitUpdates : Call(updateNodeValue(tree, code, logit_update))

SetNodeValue == \E code \in Codes, logit_value \in LogitValues : Call(setNodeValue(tree, code, logit_value))

IntegrateHit == \E code \in Codes : Call(integrateHit(tree, code))

IntegrateMiss == \E code \in Codes : Call(integrateMiss(tree, code))

SetAutomaticPruning == \E enable \in BOOLEAN : Call([tree EXCEPT !.automatic_pruning_enabled_ = enable])

Clear == Call(clear(tree))

InsertPointCloud ==
    \E cloud \in Clouds, max_range \in MaxRanges :
        \E order \in IterationOrders(computeUpdate(tree, SensorOrigin, cloud, max_range)) :
              Call(insertPointCloud(tree, SensorOrigin, cloud, max_range, order))

Next ==
    \/ UpdateNodeValue
    \/ SetNodeValue
    \/ IntegrateHit
    \/ IntegrateMiss
    \/ InsertPointCloud
    \/ SetAutomaticPruning
    \/ Clear

Spec == Init /\ [][Next]_vars

\* the same operations on a tree whose automatic pruning stays enabled
NextAuto ==
    \/ UpdateNodeValue
    \/ SetNodeValue
    \/ IntegrateHit
    \/ IntegrateMiss
    \/ InsertPointCloud
    \/ Clear

SpecAuto == Init /\ [][NextAuto]_vars

\* ------------------------------------------------------------------------
\* Depth-0 operations, called on tree and on twin alike; ref follows the
\* flat-map meaning of each call
\* ------------------------------------------------------------------------

LeafUpdates == LogitUpdates \cup {prob_hit_log_, prob_miss_log_}

UpdateLeaf ==
    \E code \in LeafCodes, logit_update \in LeafUpdates :
        /\ ops < MaxOps
        /\ ops' = ops + 1
        /\ tree' = updateNodeValue(tree, code, logit_update)
        /\ twin' = updateNodeValue(twin, code, logit_update)
        /\ ref' = [ref EXCEPT ![code] = clamp(@ + logit_update, clamping_thres_min_log_, clamping_thres_max_log_)]
        /\ UNCHANGED << stream, out >>

SetLeaf ==
    \E code \in LeafCodes, logit_value \in LogitValues :
        /\ ops < MaxOps
        /\ ops' = ops + 1
        /\ tree' = setNodeValue(tree, code, logit_value)
        /\ twin' = setNodeValue(twin, code, logit_value)
        /\ ref' = [ref EXCEPT ![code] = clamp(logit_value, clamping_thres_min_log_, clamping_thres_max_log_)]
        /\ UNCHANGED << stream, out >>

\* boxes (corner coordinates in half voxels): the eight cells of the first
\* child of the root, and one cell of its second child
Boxes == { << << -4, -4, -4 >>, << -1, -1, -1 >> >>, << << 0, -4, -4 >>, << 1, -3, -3 >> >> }

InBox(code, box) ==
    \E k \in { << x, y, z >> : x \in 0..(2 * max_value_ - 1), y \in 0..(2 * max_value_ - 1), z \in 0..(2 * max_value_ - 1) } :
        /\ code = CodeOfKey(k, 0)
        /\ \A a \in 1..3 : coordToKey1(box[1][a], 0) <= k[a] /\ k[a] <= coordToKey1(box[2][a], 0)

ClearAreaLeaf ==
    \E box \in Boxes :
        /\ ops < MaxOps
        /\ ops' = ops + 1
        /\ tree' = clearAreaBBX(tree, box[1], box[2], 0)
        /\ twin' = clearAreaBBX(twin, box[1], box[2], 0)
        /\ ref' = [x \in AllCells |-> IF InBox(x, box) THEN clamping_thres_min_log_ ELSE ref[x]]
        /\ UNCHANGED << stream, out >>

NextLeaf ==
    \/ UpdateLeaf
    \/ SetLeaf
    \/ ClearAreaLeaf

SpecLeaf == Init /\ [][NextLeaf]_vars

\* ------------------------------------------------------------------------
\* Scenario B: integrateMiss at the eight points (+-0.05, +-0.05, +-0.05),
\* resolution 0.1, each point once, in any order
\* ------------------------------------------------------------------------

\* +-0.05 is +-1 half voxel
ScenarioPoints == { << x, y, z >> : x \in {-1, 1}, y \in {-1, 1}, z \in {-1, 1} }

ScenarioCode(point) == CodeOfKey(coordToKey(point, 0), 0)

ScenarioMiss ==
    \E point \in ScenarioPoints :
        /\ ref[ScenarioCode(point)] = InnerNode.logit
        /\ tree' = integrateMiss(tree, ScenarioCode(point))
        /\ ref' = [ref EXCEPT ![ScenarioCode(point)] = prob_miss_log_]
        /\ UNCHANGED << twin, ops, stream, out >>

NextB == ScenarioMiss

SpecB == Init /\ [][NextB]_vars

\* ------------------------------------------------------------------------
\* Point clouds: insertPointCloud and insertPointCloudDiscrete on a tree that
\* integrateHit / integrateMiss calls have filled, with or without the
\* bounding-box limit and automatic pruning
\* ------------------------------------------------------------------------

\* the depth-0 cells, by their Morton codes, that read another logit in next than in t
changedCells(t, next) ==
    { c \in 0..(Pow8(depth_levels_) - 1) :
        getNode(next, Code(c, 0), FALSE).node.logit # getNode(t, Code(c, 0), FALSE).node.logit }

RECURSIVE changedBy(_, _, _)
\* the cells the call that takes t to next changes, then those of the calls after it
changedStep(t, next, calls, i) == << changedCells(t, next) >> \o changedBy(next, calls, i + 1)

\* for each of the calls updateNodeValue(calls[i][1], calls[i][2]), i, i + 1,
\* ..., made in this order on t, the cells whose logit the call changes
changedBy(t, calls, i) ==
    IF i > Len(calls) THEN << >>
    ELSE changedStep(t, updateNodeValue(t, calls[i][1], calls[i][2]), calls, i)

\* the cells that at least one, and that at least two, of the calls changed
changedOnce(changed) == UNION { changed[i] : i \in 1..Len(changed) }

changedTwice(changed) ==
    UNION { IF i < j THEN changed[i] \cap changed[j] ELSE {} : i, j \in 1..Len(changed) }

\* indices_ as the set of its entries: Morton code, depth, value
entries(indices) == { << k.code, k.depth, indices[k] >> : k \in DOMAIN indices }

Reverse(seq) == [i \in 1..Len(seq) |-> seq[Len(seq) + 1 - i]]

\* scenario C, with the end point two instead of ten cells away: the sensor in
\* the centre of the map, the end point on the border of the next cell along +x
ScenarioCOrigin == << 0, 0, 0 >>

ScenarioCCloud == << << 2, 0, 0 >> >>

\* a segment that passes the corner (-1, 1) of the box of SetBBX on the
\* outside: its x range and its y range overlap those of the box, z is inside
CornerOrigin == << -3, 0, 0 >>

CornerCloud == << << 0, 3, 0 >> >>

\* a segment beside the box of SetBBX: no point of it has an x inside the box
OutsideOrigin == << -3, 0, 0 >>

OutsideCloud == << << -3, 3, 0 >> >>

\* two end points on one ray along +x, in either order: the ray to the
\* second passes through the cell of the first
NearPoint == << -1, -3, -3 >>

FarPoint == << 1, -3, -3 >>

CloudCalls ==
    { [sensor_origin |-> ScenarioCOrigin, cloud |-> ScenarioCCloud, max_range |-> -1],
      [sensor_origin |-> CornerOrigin, cloud |-> CornerCloud, max_range |-> -1],
      [sensor_origin |-> SensorOrigin, cloud |-> << NearPoint >>, max_range |-> -1],
      [sensor_origin |-> OutsideOrigin, cloud |-> OutsideCloud, max_range |-> -1],
      [sensor_origin |-> SensorOrigin, cloud |-> << NearPoint, FarPoint >>, max_range |-> -1],
      [sensor_origin |-> SensorOrigin, cloud |-> << FarPoint, NearPoint >>, max_range |-> -1] }

\* the sensor in the centre of the first child of the root, the end points in
\* that child and in the next child along +x
DiscreteOrigin == << -2, -2, -2 >>

DiscreteCalls ==
    { [cloud |-> << NearPoint >>, n |-> 0, depth |-> 0],
      [cloud |-> << NearPoint >>, n |-> 0, depth |-> 1],
      [cloud |-> << NearPoint >>, n |-> 1, depth |-> 1],
      [cloud |-> << FarPoint >>, n |-> 0, depth |-> 1] }

\* the box of the bounding-box limit: the cube of one voxel around the centre of the map
BBXMin == << -1, -1, -1 >>

BBXMax == << 1, 1, 1 >>

\* setBBXMin, setBBXMax, enableBBXLimit(true)
SetBBX ==
    /\ ~tree.bbx_limit_enabled_
    /\ ops < MaxOps
    /\ ops' = ops + 1
    /\ tree' = [tree EXCEPT !.bbx_min_ = BBXMin, !.bbx_max_ = BBXMax, !.bbx_limit_enabled_ = TRUE]
    /\ out' = NoCall
    /\ UNCHANGED << twin, ref, stream >>

\* the cells of NearPoint and FarPoint
CloudCodes == { Code(1, 0), Code(8, 0) }

\* updateNodeValue with a hit or with a logit update of zero
CloudUpdate == \E code \in CloudCodes, logit_update \in { prob_hit_log_, 0 } : Call(updateNodeValue(tree, code, logit_update))

\* what a point-cloud call leaves in out: whether the tree before the call
\* was the tree a fresh map has, the tree after it, the entries of indices_, the depth-0 cells (by their Morton codes) whose logit
\* one of the updateNodeValue calls changed, those whose logit more than one
\* of them changed, and alt, the tree the same call gives for the cloud in
\* reverse order
CloudOut(op, call, before, after, indices, changed, alt) ==
    [op |-> op, call |-> call, empty |-> (before = OctreeBase(TRUE)), after |-> after,
     indices |-> entries(indices),
     once |-> changedOnce(changed), twice |-> changedTwice(changed), alt |-> alt]

InsertCloud ==
    \E c \in CloudCalls :
        \E order \in IterationOrders(computeUpdate(tree, c.sensor_origin, c.cloud, c.max_range)) :
            LET indices == computeUpdate(tree, c.sensor_origin, c.cloud, c.max_range)
                reversed == computeUpdate(tree, c.sensor_origin, Reverse(c.cloud), c.max_range)
            IN  /\ ops < MaxOps
                /\ ops' = ops + 1
                /\ tree' = drainIndices(tree, indices, order, 1)
                /\ out' = CloudOut("insertPointCloud", c, tree, drainIndices(tree, indices, order, 1), indices,
                                   changedBy(tree, drainCalls(indices, order), 1),
                                   drainIndices(tree, reversed, CHOOSE o \in IterationOrders(reversed) : TRUE, 1))
                /\ UNCHANGED << twin, ref, stream >>

InsertCloudDiscrete ==
    \E c \in DiscreteCalls :
        \E u \in { discreteUpdate(tree, DiscreteOrigin, c.cloud, -1, c.n, c.depth) } :
            \E order \in IterationOrders(u.indices) :
                \E calls \in { discreteCalls(tree, DiscreteOrigin, c.cloud, -1, c.n, c.depth, order) } :
                    \E after \in { insertPointCloudDiscrete(tree, DiscreteOrigin, c.cloud, -1, c.n, c.depth, order) } :
                        /\ ops < MaxOps
                        /\ ops' = ops + 1
                        /\ tree' = after
                        /\ out' = CloudOut("insertPointCloudDiscrete",
                                           [sensor_origin |-> DiscreteOrigin, cloud |-> c.cloud, max_range |-> -1,
                                            n |-> c.n, depth |-> c.depth],
                                           tree, after, u.indices, changedBy(tree, calls, 1), after)
                        /\ UNCHANGED << twin, ref, stream >>

NextCloud ==
    \/ CloudUpdate
    \/ SetBBX
    \/ SetAutomaticPruning
    \/ InsertCloud
    \/ InsertCloudDiscrete

SpecCloud == Init /\ [][NextCloud]_vars

\* ------------------------------------------------------------------------
\* Ray queries and getChild on a map whose cells along one row are free,
\* unknown or occupied
\* ------------------------------------------------------------------------

\* the row of cells along x through the centre of the map, and the cell
\* beside the corner of the box of SetBBX that the corner segment crosses
RowKeys == { << k, max_value_, max_value_ >> : k \in 0..(2 * max_value_ - 1) }

RayCodes == { CodeOfKey(key, 0) : key \in RowKeys } \cup { Code(51, 0) }

\* one update makes a fresh cell free, or occupied
RayUpdate ==
    \E code \in RayCodes, logit_update \in { clamping_thres_min_log_, prob_hit_log_ } :
        /\ ops < MaxOps
        /\ ops' = ops + 1
        /\ tree' = updateNodeValue(tree, code, logit_update)
        /\ out' = NoCall
        /\ UNCHANGED << twin, ref, stream >>

RowStart == << -3, 1, 1 >>

RowEnd == << 3, 1, 1 >>

\* origin, end, max_range, depth of the computeRay and insertMissOnRay calls
RayCalls ==
    { [origin |-> RowStart, end |-> RowEnd, max_range |-> r, depth |-> d] : r \in { -1, 2, 6 }, d \in { 0, 1 } }
    \cup { [origin |-> RowEnd, end |-> RowStart, max_range |-> -1, depth |-> 0],
           [origin |-> ScenarioCOrigin, end |-> ScenarioCCloud[1], max_range |-> -1, depth |-> 0],
           [origin |-> CornerOrigin, end |-> CornerCloud[1], max_range |-> -1, depth |-> 0],
           [origin |-> CornerOrigin, end |-> CornerCloud[1], max_range |-> 9, depth |-> 0],
           [origin |-> OutsideOrigin, end |-> OutsideCloud[1], max_range |-> 3, depth |-> 0] }

ComputeRay ==
    \E c \in RayCalls :
        /\ ops < MaxOps
        /\ ops' = ops + 1
        /\ out' = [op |-> "computeRay", call |-> c,
                   ray |-> computeRay(tree, c.origin, c.end, c.max_range, c.depth)]
        /\ UNCHANGED << tree, twin, ref, stream >>

InsertMissOnRay ==
    \E c \in RayCalls :
        /\ ops < MaxOps
        /\ ops' = ops + 1
        /\ tree' = insertMissOnRay(tree, c.origin, c.end, c.max_range, c.depth)
        /\ out' = [op |-> "insertMissOnRay", call |-> c,
                   changed |-> (insertMissOnRay(tree, c.origin, c.end, c.max_range, c.depth) # tree)]
        /\ UNCHANGED << twin, ref, stream >>

\* origin, direction, ignore_unknown, max_range, depth of the castRay calls
CastCalls ==
    { [origin |-> o, direction |-> << 1, 0, 0 >>, ignore_unknown |-> i, max_range |-> r, depth |-> 0] :
        o \in { RowStart, ScenarioCOrigin }, i \in BOOLEAN, r \in { -1, 2 } }
    \cup { [origin |-> RowEnd, direction |-> << -1, 0, 0 >>, ignore_unknown |-> i, max_range |-> -1, depth |-> 0] :
             i \in BOOLEAN }
    \cup { [origin |-> CornerOrigin, direction |-> Minus(CornerCloud[1], CornerOrigin),
            ignore_unknown |-> TRUE, max_range |-> 9, depth |-> 0],
           [origin |-> OutsideOrigin, direction |-> << 0, 1, 0 >>,
            ignore_unknown |-> TRUE, max_range |-> 3, depth |-> 0] }

\* what a read of a key outside the map may give
OutsideLogits == { clamping_thres_min_log_, InnerNode.logit, clamping_thres_max_log_ }

CastRay ==
    \E c \in CastCalls, outside \in OutsideLogits :
        /\ ops < MaxOps
        /\ ops' = ops + 1
        /\ out' = [op |-> "castRay", call |-> c,
                   result |-> castRay(tree, c.origin, c.direction, c.ignore_unknown, c.max_range, c.depth, outside)]
        /\ UNCHANGED << tree, twin, ref, stream >>

\* the codes of the nodes getChild is called on, and the child indices
ChildCodes == { Code(0, depth_levels_), Code(0, 1), Code(7 * Pow8(1), 1), Code(0, 0) }

ChildIndices == { 0, 7, 8 }

GetChild ==
    \E code \in ChildCodes, child_idx \in ChildIndices :
        /\ ops < MaxOps
        /\ ops' = ops + 1
        /\ out' = [op |-> "getChild", node |-> getNode(tree, code, FALSE), child_idx |-> child_idx,
                   result |-> getChildNode(tree, getNode(tree, code, FALSE), child_idx)]
        /\ UNCHANGED << tree, twin, ref, stream >>

NextRay ==
    \/ RayUpdate
    \/ SetBBX
    \/ ComputeRay
    \/ InsertMissOnRay
    \/ CastRay
    \/ GetChild

SpecRay == Init /\ [][NextRay]_vars

\* ------------------------------------------------------------------------
\* Walking the allocated nodes
\* ------------------------------------------------------------------------

hasBlock(node) == node.children # NullPtr

RECURSIVE InnerNodesOf(_, _)
\* every allocated inner node below (and including) node, with its depth
InnerNodesOf(node, depth) ==
    {[node |-> node, depth |-> depth]}
    \cup (IF hasBlock(node) /\ depth > 1
          THEN UNION { InnerNodesOf(node.children[i], depth - 1) : i \in 1..8 }
          ELSE {})

AllocatedInner(t) == InnerNodesOf(t.root_, depth_levels_)

\* every allocated depth-0 node
AllocatedLeaves(t) == UNION { { n.node.children[i] : i \in 1..8 } : n \in { m \in AllocatedInner(t) : m.depth = 1 /\ hasBlock(m.node) } }

RECURSIVE CountNodes(_, _, _)
RECURSIVE CountChildren(_, _, _, _)

CountChildren(children, i, child_depth, kind) ==
    IF i > 8 THEN 0
    ELSE CountNodes(children[i], child_depth, kind) + CountChildren(children, i + 1, child_depth, kind)

\* number of allocated nodes of a kind: "inner" owns a child block,
\* "inner_leaf" is an inner node without one, "leaf" is a depth-0 node
CountNodes(node, depth, kind) ==
    IF depth = 0
    THEN IF kind = "leaf" THEN 1 ELSE 0
    ELSE (IF kind = "inner" /\ hasBlock(node) THEN 1
          ELSE IF kind = "inner_leaf" /\ ~hasBlock(node) THEN 1 ELSE 0)
         + (IF hasBlock(node) THEN CountChildren(node.children, 1, depth - 1, kind) ELSE 0)

RECURSIVE CellLogits(_, _)
\* the logits the depth-0 cells below node read (a collapsed node stands for all its cells)
CellLogits(node, depth) ==
    IF depth = 0 \/ ~hasChildren(node) THEN {node.logit}
    ELSE UNION { CellLogits(node.children[i], depth - 1) : i \in 1..8 }

\* ------------------------------------------------------------------------
\* Point clouds of two points, inserted in both orders, on maps constructed
\* with either value of automatic_pruning
\* ------------------------------------------------------------------------

\* an end point in the next cell along +y from the sensor
SidePoint == << -3, -1, -3 >>

PermutedClouds == { << NearPoint, FarPoint >>, << FarPoint, NearPoint >>, << FarPoint, SidePoint >> }

\* the constructor's automatic_pruning argument is either value
InitPermuted ==
    /\ tree \in { OctreeBase(TRUE), OctreeBase(FALSE) }
    /\ twin = OctreeBase(FALSE)
    /\ ref = [x \in AllCells |-> InnerNode.logit]
    /\ ops = 0
    /\ stream = << >>
    /\ out = NoCall

\* every inner node of t that is marked all_children_same has no child block
\* and every other inner node has one
sameIffNoBlock(t) == \A n \in AllocatedInner(t) : n.node.all_children_same <=> ~hasBlock(n.node)

\* insertPointCloud of a cloud of two points; out also records the tree the
\* reversed cloud gives and whether the flags of the tree before the call
\* agreed with its child blocks
InsertPermuted ==
    \E cloud \in PermutedClouds :
        \E order \in IterationOrders(computeUpdate(tree, SensorOrigin, cloud, -1)) :
            LET indices == computeUpdate(tree, SensorOrigin, cloud, -1)
                reversed == computeUpdate(tree, SensorOrigin, Reverse(cloud), -1)
            IN  /\ ops < MaxOps
                /\ ops' = ops + 1
                /\ tree' = drainIndices(tree, indices, order, 1)
                /\ out' = [op |-> "insertPointCloud",
                           call |-> [sensor_origin |-> SensorOrigin, cloud |-> cloud, max_range |-> -1],
                           after |-> drainIndices(tree, indices, order, 1),
                           indices |-> entries(indices),
                           sound |-> sameIffNoBlock(tree),
                           alt |-> drainIndices(tree, reversed, CHOOSE o \in IterationOrders(reversed) : TRUE, 1)]
                /\ UNCHANGED << twin, ref, stream >>

NextPermuted ==
    \/ CloudUpdate
    \/ SetAutomaticPruning
    \/ InsertPermuted

SpecPermuted == InitPermuted /\ [][NextPermuted]_vars

\* ------------------------------------------------------------------------
\* Writing and reading a map.  A body is a sequence of tokens: the char of a
\* children bitset (the set of the indices, 1..8, of its bits that are set)
\* or the data of a leaf (its logit, sizeof(float) bytes).  A stream is the
\* header fields and the body.
\* ------------------------------------------------------------------------

Char(children) == << "char", children >>

Float(logit) == << "float", logit >>

\* the number of bytes of a token
SizeOf(token) == IF token[1] = "char" THEN 1 ELSE 4

RECURSIVE SizeOfBody(_, _)
\* the number of bytes of the tokens i, i + 1, ... of a body
SizeOfBody(body, i) == IF i > Len(body) THEN 0 ELSE SizeOf(body[i]) + SizeOfBody(body, i + 1)

\* LEAF_NODE::writeData
writeData(node) == << Float(node.logit) >>

RECURSIVE writeNodesRecurs(_, _, _)
RECURSIVE writeChildrenLoop(_, _, _, _, _)

\* the loop of writeNodesRecurs over the children; no bounding volume: a
\* child intersects when the bitsets were filled in, child_depth > min_depth
writeChildrenLoop(node, i, children, child_depth, min_depth) ==
    IF i > 8 \/ ~(child_depth > min_depth) THEN << >>
    ELSE (IF i \in children
          THEN IF 1 = child_depth
               THEN [j \in 1..8 |-> Float(node.children[i].children[j].logit)]
               ELSE writeNodesRecurs(node.children[i], child_depth, min_depth)
          ELSE writeData(node.children[i]))
         \o writeChildrenLoop(node, i + 1, children, child_depth, min_depth)

writeNodesRecurs(node, current_depth, min_depth) ==
    LET child_depth == current_depth - 1
        children == IF child_depth > min_depth THEN { i \in 1..8 : hasChildren(node.children[i]) } ELSE {}
    IN  << Char(children) >> \o writeChildrenLoop(node, 1, children, child_depth, min_depth)

writeNodes(node, current_depth, min_depth) ==
    LET children == IF hasChildren(node) /\ current_depth > min_depth THEN 1..8 ELSE {}
    IN  IF children = {} THEN << Char(children) >> \o writeData(node)
        ELSE << Char(children) >> \o writeNodesRecurs(node, current_depth, min_depth)

\* what a stream holds after the header: the bytes of a body, or one LZ4
\* block that holds them
RawData(body) == [lz4 |-> FALSE, bytes |-> body]

\* compressData: LZ4_compress_default of the body
compressData(body) == [lz4 |-> TRUE, bytes |-> body]

\* decompressData: LZ4_decompress_safe gives back what was compressed when
\* the input is one block and the output fits, and fails otherwise
decompressData(data, uncompressed_data_size) ==
    IF data.lz4 /\ SizeOfBody(data.bytes, 1) <= uncompressed_data_size
    THEN [success |-> TRUE, data |-> RawData(data.bytes)]
    ELSE [success |-> FALSE]

FILE_HEADER == "# UFOMap octree file"

getFileVersion == "1.0.0"

getTreeType == "occupancy_map"

\* resolution_, in voxels
getResolution == 1

\* the thresholds as probabilities, in percent
getOccupancyThres == 50

getFreeThres == 12

\* writeData(s, compress, binary = false, depth): the data and its size
writeDataOf(t, compress, depth) ==
    LET body == writeNodes(t.root_, depth_levels_, depth)
    IN  [data |-> IF compress THEN compressData(body) ELSE RawData(body),
         uncompressed_data_size |-> SizeOfBody(body, 1)]

\* write(s, compress): the stream written; of is the tree it was written
\* from, which is no part of the stream
write(t, compress) ==
    [of |-> t,
     first_line |-> FILE_HEADER,
     version |-> getFileVersion,
     id |-> getTreeType,
     binary |-> FALSE,
     resolution |-> getResolution,
     depth_levels |-> depth_levels_,
     occupancy_thres |-> getOccupancyThres,
     free_thres |-> getFreeThres,
     compressed |-> compress,
     uncompressed_data_size |-> writeDataOf(t, compress, 0).uncompressed_data_size,
     header_read |-> TRUE,
     data |-> writeDataOf(t, compress, 0).data]

\* a stream nothing has been written to
EmptyStream ==
    [of |-> OctreeBase(TRUE), first_line |-> "", version |-> "", id |-> "", binary |-> FALSE,
     resolution |-> 0, depth_levels |-> 0, occupancy_thres |-> -1, free_thres |-> -1,
     compressed |-> FALSE, uncompressed_data_size |-> -1, header_read |-> FALSE, data |-> RawData(<< >>)]

binarySupport == FALSE

\* readHeader: the checks after the tokens of the header have been read
readHeader(s) ==
    /\ s.header_read
    /\ "" # s.version
    /\ "" # s.id
    /\ ~(s.binary /\ ~binarySupport)
    /\ ~(0 >= s.resolution)
    /\ ~(0 = s.depth_levels)
    /\ ~(0 > s.occupancy_thres)
    /\ ~(0 > s.free_thres)
    /\ ~(0 > s.uncompressed_data_size)
    /\ getTreeType = s.id

\* s.read of a children char: past the end of the stream the char keeps the
\* value it had, which nothing has initialised
readChar(body, pos, uninitialised) == IF pos <= Len(body) THEN body[pos][2] ELSE uninitialised

\* LEAF_NODE::readData: past the end of the stream the logit keeps its value
readLeafData(node, body, pos) == IF pos <= Len(body) THEN [node EXCEPT !.logit = body[pos][2]] ELSE node

RECURSIVE readNodesRecurs(_, _, _, _, _, _)
RECURSIVE readChildrenLoop(_, _, _, _, _, _, _, _)

\* the loop of readNodesRecurs over the children; pos is the read position
readChildrenLoop(body, node, i, children, child_depth, t, uninitialised, pos) ==
    IF i > 8 THEN [node |-> node, t |-> t, pos |-> pos]
    ELSE IF i \in children
    THEN IF 1 = child_depth
         THEN LET e == expand(node.children[i], child_depth, t)
                  leaves == [j \in 1..8 |-> readLeafData(e.node.children[j], body, pos + j - 1)]
                  u == updateNode([e.node EXCEPT !.children = leaves], child_depth, e.t)
              IN  readChildrenLoop(body, [node EXCEPT !.children[i] = u.node], i + 1, children,
                                   child_depth, u.t, uninitialised, pos + 8)
         ELSE LET r == readNodesRecurs(body, node.children[i], child_depth, t, uninitialised, pos)
                  u == updateNode(r.node, child_depth, r.t)
              IN  readChildrenLoop(body, [node EXCEPT !.children[i] = u.node], i + 1, children,
                                   child_depth, u.t, uninitialised, r.pos)
    ELSE LET p == prune(readLeafData(node.children[i], body, pos), child_depth, FALSE, t)
         IN  readChildrenLoop(body, [node EXCEPT !.children[i] = p.node], i + 1, children,
                              child_depth, p.t, uninitialised, pos + 1)

readNodesRecurs(body, node, current_depth, t, uninitialised, pos) ==
    LET children == readChar(body, pos, uninitialised)
        e == expand(node, current_depth, t)
    IN  readChildrenLoop(body, e.node, 1, children, current_depth - 1, e.t, uninitialised, pos + 1)

\* readNodes(s, root_, depth_levels_, ...): always true
readNodes(body, t, uninitialised) ==
    IF readChar(body, 1, uninitialised) = {}
    THEN LET p == prune(readLeafData(t.root_, body, 2), depth_levels_, FALSE, t)
         IN  [value |-> TRUE, t |-> [p.t EXCEPT !.root_ = p.node]]
    ELSE LET r == readNodesRecurs(body, t.root_, depth_levels_, t, uninitialised, 2)
             u == updateNode(r.node, depth_levels_, r.t)
         IN  [value |-> TRUE, t |-> [u.t EXCEPT !.root_ = u.node]]

RECURSIVE readData(_, _, _, _, _, _, _, _)
\* readData(s, resolution, depth_levels, ..., uncompressed_data_size, compressed, binary)
readData(t, data, resolution, depth_levels, uncompressed_data_size, compressed, binary, uninitialised) ==
    IF binary /\ ~binarySupport THEN [value |-> FALSE, t |-> t]
    ELSE LET cleared == IF getResolution # resolution \/ depth_levels_ # depth_levels
                        THEN clear(t) ELSE t
         IN  IF compressed
             THEN IF decompressData(data, uncompressed_data_size).success
                  THEN readData(cleared, decompressData(data, uncompressed_data_size).data, resolution,
                                depth_levels, uncompressed_data_size, FALSE, binary, uninitialised)
                  ELSE [value |-> FALSE, t |-> cleared]
             ELSE readNodes(data.bytes, cleared, uninitialised)

\* read(s): the value returned and the tree afterwards
read(t, s, uninitialised) ==
    IF FILE_HEADER # s.first_line THEN [value |-> FALSE, t |-> t]
    ELSE IF ~readHeader(s) THEN [value |-> FALSE, t |-> t]
    ELSE IF s.compressed
    THEN IF decompressData(s.data, s.uncompressed_data_size).success
         THEN readData(t, decompressData(s.data, s.uncompressed_data_size).data, s.resolution,
                       s.depth_levels, s.uncompressed_data_size, s.compressed, s.binary, uninitialised)
         ELSE [value |-> FALSE, t |-> t]
    ELSE readData(t, s.data, s.resolution, s.depth_levels, s.uncompressed_data_size,
                  s.compressed, s.binary, uninitialised)

\* ------------------------------------------------------------------------
\* Maps written to a stream and read back, from streams as written and from
\* damaged ones
\* ------------------------------------------------------------------------

\* the number of calls in a behaviour of SpecIO
MaxIOOps == 4

\* tree is constructed with automatic pruning enabled, twin with automatic
\* pruning disabled
InitIO ==
    /\ tree = OctreeBase(TRUE)
    /\ twin = OctreeBase(FALSE)
    /\ ref = [x \in AllCells |-> InnerNode.logit]
    /\ ops = 0
    /\ stream = EmptyStream
    /\ out = NoCall

\* a depth-0 cell and the second child of the root
IOCodes == { Code(1, 0), Code(8, 1) }

\* updateNodeValue on tree with a hit or with a logit update of zero
IOUpdate ==
    \E code \in IOCodes, logit_update \in { prob_hit_log_, 0 } :
        /\ ops < MaxIOOps
        /\ ops' = ops + 1
        /\ tree' = updateNodeValue(tree, code, logit_update)
        /\ UNCHANGED << twin, ref, stream, out >>

\* the same on twin
TwinUpdate ==
    \E code \in IOCodes, logit_update \in { prob_hit_log_, 0 } :
        /\ ops < MaxIOOps
        /\ ops' = ops + 1
        /\ twin' = updateNodeValue(twin, code, logit_update)
        /\ UNCHANGED << tree, ref, stream, out >>

\* write(stream, compress) on tree or on twin
Write ==
    \E source \in { tree, twin }, compress \in BOOLEAN :
        /\ ops < MaxIOOps
        /\ ops' = ops + 1
        /\ stream' = write(source, compress)
        /\ out' = [op |-> "write", value |-> TRUE]
        /\ UNCHANGED << tree, twin, ref >>

\* the body cut after its first n tokens; a block that was cut is no block
Truncated(s, n) ==
    IF s.data.lz4 THEN [s EXCEPT !.data = RawData(<< >>)]
    ELSE [s EXCEPT !.data = RawData(SubSeq(s.data.bytes, 1, n))]

\* the stream as write leaves it for the tree it was written from
AsWritten(s) == s = write(s.of, s.compressed)

\* what can happen to a written stream before it is read: the first line or
\* a header line is lost or changed, the body is cut short
Damages(s) ==
    { [s EXCEPT !.first_line = "#"],
      [s EXCEPT !.header_read = FALSE],
      [s EXCEPT !.id = "other_map"],
      [s EXCEPT !.resolution = 0],
      [s EXCEPT !.uncompressed_data_size = -1],
      Truncated(s, 0),
      Truncated(s, Len(s.data.bytes) - 1) }

Damage ==
    /\ AsWritten(stream)
    /\ ops < MaxIOOps
    /\ ops' = ops + 1
    /\ stream' \in Damages(stream)
    /\ UNCHANGED << tree, twin, ref, out >>

\* what an uninitialised children char may hold
UninitialisedChars == { {}, 1..8 }

\* what a read call leaves in out: the value returned, the map before and
\* after the call, the stream read
ReadOut(receiver, s, uninitialised) ==
    [op |-> "read", value |-> read(receiver, s, uninitialised).value,
     before |-> receiver, after |-> read(receiver, s, uninitialised).t, stream |-> s]

\* read(stream) on tree, or on a map just constructed in the place of tree
Read ==
    \E receiver \in { tree, OctreeBase(TRUE), OctreeBase(FALSE) }, uninitialised \in UninitialisedChars :
        /\ ops < MaxIOOps
        /\ ops' = ops + 1
        /\ tree' = read(receiver, stream, uninitialised).t
        /\ out' = ReadOut(receiver, stream, uninitialised)
        /\ UNCHANGED << twin, ref, stream >>

\* read(stream) on twin
TwinRead ==
    \E uninitialised \in UninitialisedChars :
        /\ ops < MaxIOOps
        /\ ops' = ops + 1
        /\ twin' = read(twin, stream, uninitialised).t
        /\ out' = ReadOut(twin, stream, uninitialised)
        /\ UNCHANGED << tree, ref, stream >>

NextIO ==
    \/ IOUpdate
    \/ TwinUpdate
    \/ Write
    \/ Damage
    \/ Read
    \/ TwinRead

SpecIO == InitIO /\ [][NextIO]_vars

\* ------------------------------------------------------------------------
\* C1: all_children_same <=> no child block
\* ------------------------------------------------------------------------

\* C1: in every reachable state every inner node has all_children_same true
\* if and only if it has no child block allocated.
C1_SameIffNoBlock == \A n \in AllocatedInner(tree) : n.node.all_children_same <=> ~hasBlock(n.node)

\* ------------------------------------------------------------------------
\* C2: summaries of the nodes that have a child block
\* ------------------------------------------------------------------------

SummaryOk(n) ==
    /\ \A i \in 1..8 : n.node.children[i].logit <= n.node.logit
    /\ \E i \in 1..8 : n.node.children[i].logit = n.node.logit
    /\ n.node.contains_free <=> \E i \in 1..8 : containsFree(n.node.children[i], n.depth - 1)
    /\ n.node.contains_unknown <=> \E i \in 1..8 : containsUnknown(n.node.children[i], n.depth - 1)

\* C2: after any sequence of update/set operations every inner node that has a
\* child block stores the maximum of its children's logits, and its
\* contains_free / contains_unknown are the ORs of its children's contributions.
C2_SummaryOfChildren == \A n \in AllocatedInner(tree) : hasBlock(n.node) => SummaryOk(n)

\* the summaries are those of the children at every node that is not marked
\* collapsed; a block retained below a collapsed node (automatic pruning
\* disabled, see C1) is not kept up to date
SummaryOfLiveChildren ==
    \A n \in AllocatedInner(tree) : (hasBlock(n.node) /\ hasChildren(n.node)) => SummaryOk(n)

\* ------------------------------------------------------------------------
\* C3: flags of collapsed inner nodes
\* ------------------------------------------------------------------------

\* C3: every collapsed inner node has contains_free = isFree(logit) and
\* contains_unknown = isUnknown(logit), so that a flag of any inner node is true
\* exactly when some cell below it is free / unknown.
C3_CollapsedFlags ==
    \A n \in AllocatedInner(tree) :
        /\ ~hasBlock(n.node) =>
              /\ n.node.contains_free = isFreeLog(n.node.logit)
              /\ n.node.contains_unknown = isUnknownLog(n.node.logit)
        /\ n.node.contains_free <=> \E l \in CellLogits(n.node, n.depth) : isFreeLog(l)
        /\ n.node.contains_unknown <=> \E l \in CellLogits(n.node, n.depth) : isUnknownLog(l)

\* ------------------------------------------------------------------------
\* C4: clamping
\* ------------------------------------------------------------------------

InClamp(logit) == clamping_thres_min_log_ <= logit /\ logit <= clamping_thres_max_log_

\* C4: every logit stored in a leaf or an inner node lies in
\* [clamping_thres_min_log_, clamping_thres_max_log_].
C4_LogitsClamped ==
    /\ \A n \in AllocatedInner(tree) : InClamp(n.node.logit)
    /\ \A l \in AllocatedLeaves(tree) : InClamp(l.logit)

\* both clamping bounds are stored in depth-0 nodes
C4_Witness ==
    /\ \E l \in AllocatedLeaves(tree) : l.logit = clamping_thres_max_log_
    /\ \E l \in AllocatedLeaves(tree) : l.logit = clamping_thres_min_log_

\* ------------------------------------------------------------------------
\* C5: node counters
\* ------------------------------------------------------------------------

\* C5: num_inner_nodes_ is the number of inner nodes owning a child block,
\* num_leaf_nodes_ the number of allocated depth-0 nodes, num_inner_leaf_nodes_
\* the number of allocated inner nodes without a child block; an empty tree
\* has the counters (0, 1, 0).
C5_CountersMatch ==
    /\ tree.num_inner_nodes_ = CountNodes(tree.root_, depth_levels_, "inner")
    /\ tree.num_inner_leaf_nodes_ = CountNodes(tree.root_, depth_levels_, "inner_leaf")
    /\ tree.num_leaf_nodes_ = CountNodes(tree.root_, depth_levels_, "leaf")
    /\ size(tree) = tree.num_inner_nodes_ + tree.num_inner_leaf_nodes_ + tree.num_leaf_nodes_
    /\ ~hasBlock(tree.root_) =>
          /\ tree.num_inner_nodes_ = 0
          /\ tree.num_inner_leaf_nodes_ = 1
          /\ tree.num_leaf_nodes_ = 0

\* blocks of both kinds are allocated (the root's block of inner nodes, two
\* blocks of leaves) and one of the leaf blocks is about to be deleted: a miss
\* on one of the target cells makes it uniform and frees its eight leaves
C5_Witness ==
    /\ tree.num_inner_nodes_ = 3
    /\ tree.num_inner_leaf_nodes_ = 6
    /\ tree.num_leaf_nodes_ = 16
    /\ \E code \in LeafCodes :
          LET after == integrateMiss(tree, code)
          IN  after.num_leaf_nodes_ = 8 /\ after.num_inner_nodes_ = 2 /\ after.num_inner_leaf_nodes_ = 7

\* ------------------------------------------------------------------------
\* C8: automatic collapse
\* ------------------------------------------------------------------------

LeafLike(node, depth) == depth = 0 \/ ~hasBlock(node)

\* C8: with automatic pruning enabled no inner node keeps a child block whose
\* eight children are all leaf-like with identical logits.
C8_NoUniformBlock ==
    \A n \in AllocatedInner(tree) :
        hasBlock(n.node) =>
            ~ /\ \A i \in 1..8 : LeafLike(n.node.children[i], n.depth - 1)
              /\ \A i \in 2..8 : n.node.children[i].logit = n.node.children[1].logit

\* a collapse is at hand: a block of leaves holds seven equal logits and one
\* that a single miss makes equal to them; that miss frees the block, and
\* all eight cells then read the common logit at their parent
C8_Witness ==
    \E code \in LeafCodes :
        LET parent == toDepth(code, 1)
            before == getNode(tree, parent, FALSE)
            after == getNode(integrateMiss(tree, code), parent, FALSE)
        IN  /\ before.code = parent
            /\ hasBlock(before.node)
            /\ \E i \in 1..8 : before.node.children[i].logit # before.node.children[1].logit
            /\ after.code = parent
            /\ ~hasBlock(after.node)
            /\ after.node.all_children_same
            /\ after.node.logit = getNode(tree, code, FALSE).node.logit + prob_miss_log_
            /\ size(integrateMiss(tree, code)) = size(tree) - 8

\* ------------------------------------------------------------------------
\* C10: setNodeValue overwrites the subtree
\* ------------------------------------------------------------------------

\* C10: after setNodeValue(code, v) every depth-0 cell below code reads clamp(v).
C10_SetOverwritesSubtree ==
    \A code \in Codes, v \in LogitValues :
        \A x \in Descendants(code) :
            getNode(setNodeValue(tree, code, v), x, FALSE).node.logit
                = clamp(v, clamping_thres_min_log_, clamping_thres_max_log_)

\* ------------------------------------------------------------------------
\* C6: the tree refines the flat map
\* ------------------------------------------------------------------------

\* C6: with automatic pruning enabled, after any sequence of depth-0 update and
\* set calls getNode(x).logit equals, for every depth-0 code x, the value of x
\* in the flat map in which each call changed only its target cell.
C6_RefinesFlatMap == \A x \in AllCells : getNode(tree, x, FALSE).node.logit = ref[x]

\* a collapsed node with a logit other than the initial one has been expanded
\* again: the first child of the root owns a block whose cells differ, one of
\* them still at the value the block collapsed to
C6_Witness ==
    /\ hasBlock(tree.root_)
    /\ hasBlock(tree.root_.children[1])
    /\ \E i, j \in 1..8 :
          /\ tree.root_.children[1].children[i].logit = clamping_thres_min_log_
          /\ tree.root_.children[1].children[j].logit > clamping_thres_min_log_
    /\ Cardinality({ x \in AllCells : ref[x] = clamping_thres_min_log_ }) >= 7

\* ------------------------------------------------------------------------
\* C7: a tree without automatic pruning means the same
\* ------------------------------------------------------------------------

AllCodes == UNION { { toDepth(x, d) : x \in AllCells } : d \in 0..depth_levels_ }

\* C7: for every sequence of depth-0 operations the tree with automatic
\* pruning disabled answers getNode(x).logit (hence isOccupied, isFree,
\* isUnknown) for every code x like the tree with automatic pruning enabled.
C7_PruningOnlyMemory ==
    \A x \in AllCodes :
        LET a == getNode(tree, x, FALSE).node.logit
            b == getNode(twin, x, FALSE).node.logit
        IN  /\ a = b
            /\ isOccupiedLog(a) = isOccupiedLog(b)
            /\ isFreeLog(a) = isFreeLog(b)
            /\ isUnknownLog(a) = isUnknownLog(b)

\* ------------------------------------------------------------------------
\* C9: scenario B
\* ------------------------------------------------------------------------

Missed(r) == { x \in AllCells : r[x] # InnerNode.logit }

\* C9: after the eighth miss the common parent of the eight cells collapses:
\* size() is 9 less (8 leaves, 1 inner node) than after the seventh miss.
C9_EighthMissShrinks ==
    [][(Cardinality(Missed(ref)) = 7 /\ Cardinality(Missed(ref')) = 8)
          => size(tree') = size(tree) - 9]_vars

\* C9 as amended: the eight cells lie in eight different children of the
\* root, so no block is ever uniform: after k misses the tree holds 8k depth-0
\* nodes, size() is 9 + 8k(depth_levels - 1), and every missed cell reads
\* prob_miss_log.
C9_NoCommonParent ==
    /\ Cardinality({ getChildIdx(ScenarioCode(p), depth_levels_ - 1) : p \in ScenarioPoints }) = 8
    /\ LET k == Cardinality(Missed(ref))
       IN  /\ tree.num_leaf_nodes_ = 8 * k
           /\ k > 0 => size(tree) = 9 + 8 * k * (depth_levels_ - 1)
    /\ \A p \in ScenarioPoints :
          ref[ScenarioCode(p)] # InnerNode.logit
              => getNode(tree, ScenarioCode(p), FALSE).node.logit = prob_miss_log_

\* all eight misses have been integrated
C9_Witness == Cardinality(Missed(ref)) = 8 /\ tree.num_inner_nodes_ = 9

\* ------------------------------------------------------------------------
\* Point clouds
\* ------------------------------------------------------------------------

\* C11: within one insertPointCloud or insertPointCloudDiscrete call no
\* depth-0 cell has its logit changed by more than one of the updates the
\* call makes
C11_OneUpdatePerCell ==
    out.op \in { "insertPointCloud", "insertPointCloudDiscrete" } => out.twice = {}

\* the part of C11 that concerns insertPointCloud alone
C11_InsertPointCloudOnly == out.op = "insertPointCloud" => out.twice = {}

\* the entry of indices_ for the depth-0 cell of a point
entryOf(point, value) == << CodeOfKey(coordToKey(point, 0), 0).code, 0, value >>

\* the points of the last cloud whose end point the call kept: the segment
\* to the point reaches the box and is not cut short by it
Surviving ==
    { i \in 1..Len(out.call.cloud) :
        LET m == moveLineIntoBBX(tree, out.call.sensor_origin, out.call.cloud[i])
        IN  m.inside /\ m.end = out.call.cloud[i] }

\* C12: insertPointCloud gives the same logit at every code for the cloud
\* and for the cloud in reverse order, whatever the order in which indices_
\* is drained; the cell of a surviving end point is recorded with
\* prob_hit_log_, every other recorded cell with the miss written first
C12_OrderIndependent ==
    (out.op = "insertPointCloud" /\ tree = out.after) =>
        /\ \A x \in AllCodes : getNode(tree, x, FALSE).node.logit = getNode(out.alt, x, FALSE).node.logit
        /\ \A i \in Surviving : entryOf(out.call.cloud[i], prob_hit_log_) \in out.indices
        /\ \A e \in out.indices :
                e[3] = prob_hit_log_ => \E i \in Surviving : e = entryOf(out.call.cloud[i], prob_hit_log_)

\* C12 where the flags of the tree agreed with its child blocks before the call
C12_OrderIndependentSound == out.op = "insertPointCloud" /\ out.sound => C12_OrderIndependent

\* the cloud whose second end point lies in a cell the ray to the first has
\* passed: the miss is in indices_ before the hit, in the reverse cloud after it
C12_Witness ==
    /\ out.op = "insertPointCloud"
    /\ tree = out.after
    /\ out.call.cloud = << FarPoint, NearPoint >>
    /\ entryOf(NearPoint, prob_hit_log_) \in out.indices
    /\ getNode(tree, CodeOfKey(coordToKey(NearPoint, 0), 0), FALSE).node.logit = prob_hit_log_

\* scenario C has just run on the tree of a fresh map
ScenarioCDone ==
    /\ out.op = "insertPointCloud"
    /\ out.empty
    /\ tree = out.after
    /\ out.call = [sensor_origin |-> ScenarioCOrigin, cloud |-> ScenarioCCloud, max_range |-> -1]

\* the cells along +x from the cell of the sensor up to, excluding, the cell of the end point
TraversedC ==
    { CodeOfKey(<< k, coordToKey1(ScenarioCOrigin[2], 0), coordToKey1(ScenarioCOrigin[3], 0) >>, 0) :
        k \in coordToKey1(ScenarioCOrigin[1], 0)..(coordToKey1(ScenarioCCloud[1][1], 0) - 1) }

EndpointC == CodeOfKey(coordToKey(ScenarioCCloud[1], 0), 0)

\* C13 as stated: after scenario C the cell of the end point is occupied
\* and every cell traversed before it is free
C13_TraversedFree ==
    ScenarioCDone =>
        /\ isOccupiedLog(getNode(tree, EndpointC, FALSE).node.logit)
        /\ \A x \in TraversedC : isFreeLog(getNode(tree, x, FALSE).node.logit)

\* C13, amended: after scenario C the cell of the end point reads
\* prob_hit_log_ and is occupied; the cells a miss was recorded for are cells
\* traversed before it, the cell of the sensor among them, and each reads
\* prob_miss_log_, which is not below the free threshold: it is unknown, not
\* free; every other cell reads what it read before
C13_TraversedUnknown ==
    ScenarioCDone =>
        /\ getNode(tree, EndpointC, FALSE).node.logit = prob_hit_log_
        /\ isOccupiedLog(getNode(tree, EndpointC, FALSE).node.logit)
        /\ entryOf(ScenarioCOrigin, prob_miss_log_) \in out.indices
        /\ \A e \in out.indices :
                \/ e = entryOf(ScenarioCCloud[1], prob_hit_log_)
                \/ /\ Code(e[1], e[2]) \in TraversedC
                   /\ e[3] = prob_miss_log_
                   /\ getNode(tree, Code(e[1], e[2]), FALSE).node.logit = prob_miss_log_
                   /\ isUnknownLog(getNode(tree, Code(e[1], e[2]), FALSE).node.logit)
                   /\ ~isFreeLog(getNode(tree, Code(e[1], e[2]), FALSE).node.logit)
        /\ \A x \in AllCells :
                (\A e \in out.indices : x # Code(e[1], e[2])) => getNode(tree, x, FALSE).node.logit = InnerNode.logit

C13_Witness ==
    /\ ScenarioCDone
    /\ Cardinality(out.indices) = Cardinality(TraversedC) + 1
    /\ \A x \in TraversedC : getNode(tree, x, FALSE).node.logit = prob_miss_log_

\* ------------------------------------------------------------------------
\* Rays
\* ------------------------------------------------------------------------

\* the walk the ray is to be: emit current and step until current = ending
\* or min(t_max) exceeds the origin-to-end distance
WalkToEnd(origin, end, depth) ==
    computeRayLoop(computeRayInit(origin, end, Minus(end, origin), depth), Scale(Minus(end, origin)), depth, << >>)

\* C14: computeRay with the default max_range, origin and end in different
\* cells, no bounding-box limit: ray is the keys of the cells from the cell
\* of origin up to, not including, the cell of end, in traversal order
C14_ComputeRayDefault ==
    (/\ out.op = "computeRay"
     /\ out.call.max_range < 0
     /\ ~tree.bbx_limit_enabled_
     /\ coordToKey(out.call.origin, out.call.depth) # coordToKey(out.call.end, out.call.depth)) =>
        /\ out.ray = WalkToEnd(out.call.origin, out.call.end, out.call.depth)
        /\ out.ray[1] = coordToKey(out.call.origin, out.call.depth)
        /\ \A i \in 1..Len(out.ray) : out.ray[i] # coordToKey(out.call.end, out.call.depth)

\* the same for a max_range that is the origin-to-end distance
C14_ComputeRayToEnd ==
    (/\ out.op = "computeRay"
     /\ out.call.max_range = Scale(Minus(out.call.end, out.call.origin))
     /\ ~tree.bbx_limit_enabled_
     /\ coordToKey(out.call.origin, out.call.depth) # coordToKey(out.call.end, out.call.depth)) =>
        /\ out.ray = WalkToEnd(out.call.origin, out.call.end, out.call.depth)
        /\ out.ray[1] = coordToKey(out.call.origin, out.call.depth)
        /\ \A i \in 1..Len(out.ray) : out.ray[i] # coordToKey(out.call.end, out.call.depth)

\* whether the segment from origin to end has a point in the closed box:
\* the times at which it is between the two planes of each axis, as
\* fractions << numerator, denominator >> of the way to end, overlap
EntryTimes(origin, end, bbx_min, bbx_max) ==
    { << 0, 1 >> } \cup
    { IF end[i] > origin[i] THEN << bbx_min[i] - origin[i], end[i] - origin[i] >>
      ELSE << origin[i] - bbx_max[i], origin[i] - end[i] >> : i \in { j \in 1..3 : end[j] # origin[j] } }

ExitTimes(origin, end, bbx_min, bbx_max) ==
    { << 1, 1 >> } \cup
    { IF end[i] > origin[i] THEN << bbx_max[i] - origin[i], end[i] - origin[i] >>
      ELSE << origin[i] - bbx_min[i], origin[i] - end[i] >> : i \in { j \in 1..3 : end[j] # origin[j] } }

Touches(origin, end, bbx_min, bbx_max) ==
    /\ \A i \in 1..3 : end[i] = origin[i] => (bbx_min[i] <= origin[i] /\ origin[i] <= bbx_max[i])
    /\ \A a \in EntryTimes(origin, end, bbx_min, bbx_max), b \in ExitTimes(origin, end, bbx_min, bbx_max) :
            a[1] * b[2] <= b[1] * a[2]

\* C15: with the bounding-box limit enabled, for a point whose segment from
\* the sensor has no point in the box, moveLineIntoBBX returns false,
\* computeRay emits no key and insertPointCloud records nothing
C15_OutsideBoxNothing ==
    (/\ out.op = "insertPointCloud"
     /\ tree = out.after
     /\ tree.bbx_limit_enabled_
     /\ \A i \in 1..Len(out.call.cloud) :
            ~Touches(out.call.sensor_origin, out.call.cloud[i], tree.bbx_min_, tree.bbx_max_)) =>
        /\ \A i \in 1..Len(out.call.cloud) :
                /\ ~moveLineIntoBBX(tree, out.call.sensor_origin, out.call.cloud[i]).inside
                /\ computeRay(tree, out.call.sensor_origin, out.call.cloud[i],
                              Scale(Minus(out.call.cloud[i], out.call.sensor_origin)), 0) = << >>
        /\ out.indices = {}

\* the same for the segment beside the box alone
C15_BesideBoxNothing ==
    (/\ out.op = "insertPointCloud"
     /\ tree = out.after
     /\ tree.bbx_limit_enabled_
     /\ out.call.sensor_origin = OutsideOrigin
     /\ out.call.cloud = OutsideCloud) =>
        /\ ~Touches(OutsideOrigin, OutsideCloud[1], tree.bbx_min_, tree.bbx_max_)
        /\ ~moveLineIntoBBX(tree, OutsideOrigin, OutsideCloud[1]).inside
        /\ out.indices = {}

\* ------------------------------------------------------------------------
\* castRay
\* ------------------------------------------------------------------------

\* the direction runs along one axis
AlongAxis(direction) == Scale(direction) = 1 /\ direction # << 0, 0, 0 >>

AxisOf(direction) == CHOOSE a \in 1..3 : direction[a] # 0

\* the range a castRay call asks for
RangeOf(call) == IF 0 > call.max_range THEN defaultRange ELSE call.max_range

\* the cells of the map along a ray that runs along an axis, from the cell
\* of the origin to the cell where the range or the map ends
CellsAlong(call) ==
    LET a == AxisOf(call.direction)
        s == call.direction[a]
        o == coordToKey(call.origin, call.depth)
        e == coordToKey1(call.origin[a] + s * RangeOf(call), call.depth)
        last == IF s > 0 THEN (IF e < 2 * max_value_ - 1 THEN e ELSE 2 * max_value_ - 1)
                ELSE (IF e > 0 THEN e ELSE 0)
    IN  [j \in 1..(Abs(last - o[a]) + 1) |-> [o EXCEPT ![a] = o[a] + s * (j - 1)]]

\* castRay stops in this cell whatever lies behind it
StopsAt(t, key, call) ==
    LET logit == getNode(t, CodeOfKey(key, call.depth), FALSE).node.logit
    IN  isOccupiedLog(logit) \/ (~call.ignore_unknown /\ isUnknownLog(logit))

\* the first cell along the ray that is occupied or, when unknown cells are
\* not ignored, unknown; the last cell when there is none
StoppingCell(t, call) ==
    LET cells == CellsAlong(call)
        stops == { j \in 1..Len(cells) : StopsAt(t, cells[j], call) }
    IN  IF stops = {} THEN cells[Len(cells)]
        ELSE cells[CHOOSE j \in stops : \A i \in stops : j <= i]

\* C16: castRay stops at the first cell along the ray that is occupied, or
\* (ignore_unknown false) unknown, or where the range or the box ends; it
\* returns true exactly when that cell is occupied and sets end to the
\* centre of that cell; a ray with no point in the enabled box returns false
C16_CastRayStops ==
    out.op = "castRay" =>
        IF tree.bbx_limit_enabled_
        THEN ~Touches(out.call.origin, alongRay(out.call.origin, out.call.direction, RangeOf(out.call)),
                      tree.bbx_min_, tree.bbx_max_) => ~out.result.value
        ELSE AlongAxis(out.call.direction) =>
                /\ out.result.set
                /\ out.result.current = StoppingCell(tree, out.call)
                /\ out.result.end = keyToCoord(StoppingCell(tree, out.call), out.call.depth)
                /\ out.result.value =
                       isOccupiedLog(getNode(tree, CodeOfKey(StoppingCell(tree, out.call), out.call.depth), FALSE).node.logit)

\* the same for the calls without a bounding-box limit
C16_CastRayNoBox == ~tree.bbx_limit_enabled_ => C16_CastRayStops

\* the same for the calls with the bounding-box limit enabled
C16_CastRayBox == tree.bbx_limit_enabled_ => C16_CastRayStops

\* the same for the calls without a bounding-box limit that stop before the
\* last cell of the map along the ray or run towards the lower face of the map
C16_CastRayInsideMap ==
    (/\ out.op = "castRay"
     /\ ~tree.bbx_limit_enabled_
     /\ out.result.set
     /\ inMap(out.result.current)) => C16_CastRayStops

\* ------------------------------------------------------------------------
\* getChild
\* ------------------------------------------------------------------------

\* C20: getChild(node, child_idx) throws exactly when child_idx > 7 or node
\* is a leaf; for a node that has children and child_idx in 0..7 it returns
\* the node for the code node.code.getChild(child_idx)
C20_GetChild ==
    out.op = "getChild" =>
        /\ out.result.thrown <=> (7 < out.child_idx \/ isLeafNode(out.node))
        /\ (~isLeafNode(out.node) /\ out.child_idx <= 7) =>
                /\ ~out.result.thrown
                /\ out.result.code = getChild(out.node.code, out.child_idx)
                /\ out.result.node = getNode(tree, getChild(out.node.code, out.child_idx), FALSE)

\* the part of C20 that concerns child_idx alone: an index above 7 throws
C20_IndexAboveSeven == (out.op = "getChild" /\ 7 < out.child_idx) => out.result.thrown

\* ------------------------------------------------------------------------
\* Writing and reading
\* ------------------------------------------------------------------------

\* the tree read has the logit of the tree written at every code
SameLogits(t, u) == \A x \in AllCodes : getNode(t, x, FALSE).node.logit = getNode(u, x, FALSE).node.logit

\* C17: a stream written without compression and read back gives true and
\* a tree with the logit of the written tree at every code
C17_RoundTrip ==
    (out.op = "read" /\ AsWritten(out.stream) /\ ~out.stream.compressed) =>
        out.value /\ SameLogits(out.after, out.stream.of)

\* C17 for the maps whose all_children_same flags agreed with their child
\* blocks before the read
C17_RoundTripSound == (out.op = "read" /\ sameIffNoBlock(out.before)) => C17_RoundTrip

\* C18: a stream written with compression and read back gives true and a
\* tree with the logit of the written tree at every code
C18_RoundTripCompressed ==
    (out.op = "read" /\ AsWritten(out.stream) /\ out.stream.compressed) =>
        out.value /\ SameLogits(out.after, out.stream.of)

\* C19: read of a stream with a missing or garbled header, another id, a
\* header value that is not positive, or a body cut short returns false and
\* leaves the tree as it was
C19_FailedReadNoEffect ==
    (out.op = "read" /\ ~AsWritten(out.stream)) => (~out.value /\ out.after = out.before)

\* the part of C19 that concerns the header and compressed bodies
C19_BadHeaderNoEffect ==
    (out.op = "read" /\ ~AsWritten(out.stream)
        /\ (out.stream.compressed \/ out.stream.data = write(out.stream.of, FALSE).data)) =>
            (~out.value /\ out.after = out.before)

\* a read that returns false leaves the tree as it was
C19_FalseNoEffect == (out.op = "read" /\ ~out.value) => out.after = out.before

\* ------------------------------------------------------------------------
\* Configuration: the constructor arguments, clear(resolution, depth_levels),
\* the header values read accepts, and the probability setters.  The object
\* here is the configuration part of the octree (its nodes are the subject
\* of the sections above).  Lengths count half voxels of a map of resolution
\* 2, so that resolution / 2.0 is whole; a probability p is the number
\* 100 * p and a log-odds value l the number 100 * l, rounded.
\* ------------------------------------------------------------------------

\* number of operations on the configuration in one run
MaxConfigOps == 2

\* what std::log gives for 0, for infinity and for a negative number
MinusInfinity == -100000

Infinity == 100000

NaN == 200000

\* logit(probability) = std::log(probability / (1.0 - probability))
logit(probability) ==
    IF probability < 0 \/ 100 < probability THEN NaN
    ELSE CASE probability = 0 -> MinusInfinity
           [] probability = 100 -> Infinity
           [] probability = 3 -> -348
           [] probability = 12 -> -199
           [] probability = 40 -> -41
           [] probability = 50 -> 0
           [] probability = 70 -> 85
           [] probability = 85 -> 173
           [] probability = 97 -> 348

\* what the conversion of std::pow(2, depth_levels - 1) to an unsigned value
\* gives when depth_levels is 0 (the power is infinite): not defined
UndefinedMaxValues == { 0, 2147483647 }

RECURSIVE sizesLoop(_, _, _, _)
\* the loop "for (i = 1; i <= depth_levels_; ++i)" of the constructor and of
\* clear on the two tables, which hold size elements each
sizesLoop(nodes_sizes_, nodes_half_sizes_, i, depth_levels) ==
    IF i > depth_levels THEN [nodes_sizes_ |-> nodes_sizes_, nodes_half_sizes_ |-> nodes_half_sizes_]
    ELSE sizesLoop([nodes_sizes_ EXCEPT ![i + 1] = nodes_sizes_[i] * 2],
                   [nodes_half_sizes_ EXCEPT ![i + 1] = nodes_sizes_[i]], i + 1, depth_levels)

\* std::vector::resize: the first elements stay, new elements are zero
resize(vector, count) == [i \in 1..count |-> IF i <= Len(vector) THEN vector[i] ELSE 0]

\* the tables after "resize(depth_levels_ + 1)", element 0 and the loop
sizeTables(nodes_sizes_, nodes_half_sizes_, resolution, depth_levels) ==
    sizesLoop([resize(nodes_sizes_, depth_levels + 1) EXCEPT ![1] = resolution],
              [resize(nodes_half_sizes_, depth_levels + 1) EXCEPT ![1] = resolution \div 2],
              1, depth_levels)

\* the arguments of the constructor
ConstructorCall(resolution, depth_levels, occupancy_thres, free_thres, prob_hit, prob_miss, clamping_thres_min, clamping_thres_max) ==
    [resolution |-> resolution, depth_levels |-> depth_levels, occupancy_thres |-> occupancy_thres,
     free_thres |-> free_thres, prob_hit |-> prob_hit, prob_miss |-> prob_miss,
     clamping_thres_min |-> clamping_thres_min, clamping_thres_max |-> clamping_thres_max]

\* OctreeBase(resolution, depth_levels, automatic_pruning, occupancy_thres,
\* free_thres, prob_hit, prob_miss, clamping_thres_min, clamping_thres_max):
\* thrown when the constructor ends with std::invalid_argument
construct(a) ==
    IF 2 > a.depth_levels \/ 21 < a.depth_levels
    THEN [thrown |-> TRUE]
    ELSE [thrown |-> FALSE,
          resolution_ |-> a.resolution,
          depth_levels_ |-> a.depth_levels,
          max_value_ |-> Pow2(a.depth_levels - 1),
          occupancy_thres_log_ |-> logit(a.occupancy_thres),
          free_thres_log_ |-> logit(a.free_thres),
          prob_hit_log_ |-> logit(a.prob_hit),
          prob_miss_log_ |-> logit(a.prob_miss),
          clamping_thres_min_log_ |-> logit(a.clamping_thres_min),
          clamping_thres_max_log_ |-> logit(a.clamping_thres_max),
          nodes_sizes_ |-> sizeTables(<< >>, << >>, a.resolution, a.depth_levels).nodes_sizes_,
          nodes_half_sizes_ |-> sizeTables(<< >>, << >>, a.resolution, a.depth_levels).nodes_half_sizes_]

\* clear(resolution, depth_levels) on the configuration; max_value is the
\* value the conversion of the power gives
clearTo(t, resolution, depth_levels, max_value) ==
    IF 21 < depth_levels
    THEN [thrown |-> TRUE, t |-> t]
    ELSE IF resolution # t.resolution_
         THEN [thrown |-> FALSE,
               t |-> [t EXCEPT !.depth_levels_ = depth_levels,
                               !.max_value_ = max_value,
                               !.resolution_ = resolution,
                               !.nodes_sizes_ = sizeTables(t.nodes_sizes_, t.nodes_half_sizes_, resolution, depth_levels).nodes_sizes_,
                               !.nodes_half_sizes_ = sizeTables(t.nodes_sizes_, t.nodes_half_sizes_, resolution, depth_levels).nodes_half_sizes_]]
         ELSE [thrown |-> FALSE, t |-> [t EXCEPT !.depth_levels_ = depth_levels, !.max_value_ = max_value]]

\* the values std::pow(2, depth_levels - 1) can be stored as
MaxValues(depth_levels) == IF 0 = depth_levels THEN UndefinedMaxValues ELSE { Pow2(depth_levels - 1) }

\* the checks of readHeader on resolution and depth_levels, the other header
\* values being those write gives
headerAccepted(resolution, depth_levels) == ~(0 >= resolution) /\ ~(0 = depth_levels)

\* read of a well-formed file with the given resolution and depth_levels:
\* readHeader, then readData, which clears when one of the two differs
readTo(t, resolution, depth_levels, max_value) ==
    IF ~headerAccepted(resolution, depth_levels)
    THEN [thrown |-> FALSE, value |-> FALSE, t |-> t]
    ELSE IF t.resolution_ # resolution \/ t.depth_levels_ # depth_levels
         THEN [thrown |-> clearTo(t, resolution, depth_levels, max_value).thrown, value |-> TRUE,
               t |-> clearTo(t, resolution, depth_levels, max_value).t]
         ELSE [thrown |-> FALSE, value |-> TRUE, t |-> t]

setProbHit(t, probability) == [t EXCEPT !.prob_hit_log_ = logit(probability)]

\* setProbMiss(probability): setProbMissLog(logit(prob_hit_log_))
setProbMiss(t, probability) == [t EXCEPT !.prob_miss_log_ = logit(t.prob_hit_log_)]

\* whether nodes_sizes_[depth] and nodes_half_sizes_[depth] are elements of the tables
inTables(t, depth) == depth < Len(t.nodes_sizes_) /\ depth < Len(t.nodes_half_sizes_)

\* getNodeSize(depth), getNodeHalfSize(depth) of the configuration t
nodeSizeAt(t, depth) == t.nodes_sizes_[depth + 1]

nodeHalfSizeAt(t, depth) == t.nodes_half_sizes_[depth + 1]

Resolutions == { -2, 0, 2, 4 }

DepthLevels == { 0, 1, 2, 3, 21, 22 }

\* the probabilities of the end-to-end scenarios: 0.5, 0.12, 0.7, 0.4, 0.1192 (here 0.12), 0.971 (here 0.97)
DefaultCall(resolution, depth_levels) == ConstructorCall(resolution, depth_levels, 50, 12, 70, 40, 12, 97)

\* a probability that is not in (0, 1)
BadProbabilities == { -10, 0, 100, 150 }

\* constructor calls: any resolution and depth_levels with the default
\* probabilities, or one probability that is not in (0, 1)
ConstructorCalls ==
    { DefaultCall(resolution, depth_levels) : resolution \in Resolutions, depth_levels \in DepthLevels }
    \cup { [DefaultCall(2, 2) EXCEPT ![f] = p] :
             f \in { "occupancy_thres", "free_thres", "prob_hit", "prob_miss", "clamping_thres_min", "clamping_thres_max" },
             p \in BadProbabilities }

InitConfig ==
    /\ \E a \in ConstructorCalls :
        /\ tree = construct(a)
        /\ out = [op |-> "OctreeBase", call |-> a]
    /\ twin = OctreeBase(FALSE)
    /\ ref = << >>
    /\ ops = 0
    /\ stream = << >>

\* a call on the configuration: r is [thrown, t] and, for read, value
ConfigCall(op, call, r) ==
    /\ ~tree.thrown
    /\ ops < MaxConfigOps
    /\ ops' = ops + 1
    /\ tree' = r.t
    /\ out' = [op |-> op, call |-> call, before |-> tree, thrown |-> r.thrown]
    /\ UNCHANGED << twin, ref, stream >>

ClearConfig ==
    /\ ~tree.thrown
    /\ \E max_value \in MaxValues(tree.depth_levels_) :
        ConfigCall("clear", << >>, clearTo(tree, tree.resolution_, tree.depth_levels_, max_value))

ClearTo ==
    \E resolution \in Resolutions, depth_levels \in DepthLevels :
        \E max_value \in MaxValues(depth_levels) :
            ConfigCall("clear", << resolution, depth_levels >>, clearTo(tree, resolution, depth_levels, max_value))

ReadTo ==
    \E resolution \in Resolutions, depth_levels \in DepthLevels :
        \E max_value \in MaxValues(depth_levels) :
            ConfigCall("read", << resolution, depth_levels >>, readTo(tree, resolution, depth_levels, max_value))

SetProbHit ==
    \E probability \in { 70, 97 } :
        ConfigCall("setProbHit", probability, [thrown |-> FALSE, t |-> setProbHit(tree, probability)])

SetProbMiss ==
    \E probability \in { 12, 40 } :
        ConfigCall("setProbMiss", probability, [thrown |-> FALSE, t |-> setProbMiss(tree, probability)])

NextConfig ==
    \/ ClearConfig
    \/ ClearTo
    \/ ReadTo
    \/ SetProbHit
    \/ SetProbMiss

SpecConfig == InitConfig /\ [][NextConfig]_vars

\* ------------------------------------------------------------------------
\* C21: invalid configuration is rejected
\* ------------------------------------------------------------------------

\* a probability in (0, 1)
ValidProbability(p) == 0 < p /\ p < 100

\* constructor arguments the specification accepts
ValidCall(a) ==
    /\ 2 <= a.depth_levels /\ a.depth_levels <= 21
    /\ 0 < a.resolution
    /\ \A f \in { "occupancy_thres", "free_thres", "prob_hit", "prob_miss", "clamping_thres_min", "clamping_thres_max" } :
        ValidProbability(a[f])

\* a constructed tree whose depth_levels is in [2, 21] and whose resolution is positive
ValidConfig(t) == ~t.thrown /\ 2 <= t.depth_levels_ /\ t.depth_levels_ <= 21 /\ 0 < t.resolution_

\* C21: the constructor throws for depth_levels outside [2, 21], a resolution
\* that is not positive or a probability outside (0, 1), and clear(resolution,
\* depth_levels) and read leave a tree with depth_levels in [2, 21] and a
\* positive resolution in such a state
C21_InvalidRejected ==
    /\ out.op = "OctreeBase" => (tree.thrown <=> ~ValidCall(out.call))
    /\ (out.op \in { "clear", "read" } /\ ValidConfig(out.before)) => ValidConfig(tree)

\* the part of C21 the constructor checks: it throws exactly for
\* depth_levels outside [2, 21]
C21_DepthRejected ==
    out.op = "OctreeBase" => (tree.thrown <=> (2 > out.call.depth_levels \/ 21 < out.call.depth_levels))

\* clear and read never leave a tree with more than 21 depth levels
C21_DepthAtMost21 ==
    (out.op \in { "clear", "read" } /\ ValidConfig(out.before)) => tree.depth_levels_ <= 21

\* a tree constructed with a resolution that is not positive
C21_ConstructedInvalid == out.op = "OctreeBase" /\ ~tree.thrown /\ out.call.resolution <= 0

\* a valid tree that clear(resolution, depth_levels) or read left invalid
C21_LeftInvalid == out.op \in { "clear", "read" } /\ ValidConfig(out.before) /\ ~ValidConfig(tree)

\* ------------------------------------------------------------------------
\* C30: the node-size tables cover every depth of the tree
\* ------------------------------------------------------------------------

\* the tables of t hold resolution * 2^d and half of it at every depth d of t
TablesCover(t) ==
    \A d \in 0..t.depth_levels_ :
        /\ inTables(t, d)
        /\ nodeSizeAt(t, d) = t.resolution_ * Pow2(d)
        /\ 2 * nodeHalfSizeAt(t, d) = nodeSizeAt(t, d)

\* C30: after construction, clear(), clear(resolution, depth_levels) and
\* read, getNodeSize(d) is resolution * 2^d and getNodeHalfSize(d) half of it
\* for every d in 0..depth_levels
C30_NodeSizeTables == ~tree.thrown => TablesCover(tree)

\* the tables cover every depth after construction and after a clear or a
\* read that changes the resolution
C30_TablesWhenResolutionChanges ==
    /\ (out.op = "OctreeBase" /\ ~tree.thrown) => TablesCover(tree)
    /\ (out.op \in { "clear", "read" } /\ ~out.thrown /\ tree.resolution_ # out.before.resolution_) => TablesCover(tree)

\* clear(resolution, depth_levels) with the tree's resolution and more depth
\* levels has returned
C30_DeeperSameResolution ==
    /\ out.op = "clear" /\ ~out.thrown
    /\ tree.resolution_ = out.before.resolution_
    /\ tree.depth_levels_ > out.before.depth_levels_
    /\ TablesCover(out.before)

\* ------------------------------------------------------------------------
\* C27: setProbMiss
\* ------------------------------------------------------------------------

\* C27: after setProbMiss(p), p in (0, 1), getProbMissLog() is logit(p)
C27_SetProbMiss == (out.op = "setProbMiss" /\ ~tree.thrown) => tree.prob_miss_log_ = logit(out.call)

\* what setProbMiss stores: the logit of the hit log-odds of the tree
C27_SetProbMissOfHit == (out.op = "setProbMiss" /\ ~tree.thrown) => tree.prob_miss_log_ = logit(out.before.prob_hit_log_)

\* setProbHit(p) stores logit(p)
C27_SetProbHit == (out.op = "setProbHit" /\ ~tree.thrown) => tree.prob_hit_log_ = logit(out.call)

\* setProbMiss has stored a value that is not a number
C27_MissNotANumber == out.op = "setProbMiss" /\ tree.prob_miss_log_ = NaN /\ out.before.prob_hit_log_ = logit(97)

\* ------------------------------------------------------------------------
\* Calls on the nodes of a tree: updateNodeValue and setNodeValue at every
\* depth, change detection, prune(), getNode and the threshold setters.  out
\* keeps the call and the tree before it; ref keeps the two thresholds the
\* setters store (the summaries of the sections above are computed with the
\* thresholds of the constructor, so a tree whose thresholds were set takes
\* no further update).
\* ------------------------------------------------------------------------

\* number of updateNodeValue / setNodeValue calls in one run
MaxNodeOps == 2

\* two cells of the first child of the root, that child, its sibling and the root
NodeCodes == { Code(0, 0), Code(1, 0), Code(0, 1), Code(8, 1), Code(0, depth_levels_) }

NodeUpdates == { -3, 3, 6 }

NodeValues == { -3, 6 }

\* occupancy_thres_log_ and free_thres_log_ as the constructor stores them
ConstructedThresholds == [occupancy_thres_log_ |-> occupancy_thres_log_, free_thres_log_ |-> free_thres_log_]

enableChangeDetection(t, enable) == [t EXCEPT !.change_detection_enabled_ = enable]

resetChangeDetection(t) == [t EXCEPT !.changed_codes_ = {}]

\* prune(): "TODO: Implement"
pruneTree(t) == t

setOccupancyThresLog(thresholds, logit_value) == [thresholds EXCEPT !.occupancy_thres_log_ = logit_value]

setFreeThresLog(thresholds, logit_value) == [thresholds EXCEPT !.free_thres_log_ = logit_value]

InitNode ==
    /\ tree \in { OctreeBase(TRUE), OctreeBase(FALSE) }
    /\ twin = OctreeBase(FALSE)
    /\ ref = ConstructedThresholds
    /\ ops = 0
    /\ stream = << >>
    /\ out = NoCall

\* a call that may change the nodes and the counters
NodeCall(op, call, t) ==
    /\ ref = ConstructedThresholds
    /\ ops < MaxNodeOps
    /\ ops' = ops + 1
    /\ tree' = t
    /\ out' = [op |-> op, call |-> call, before |-> tree]
    /\ UNCHANGED << twin, ref, stream >>

NodeUpdate ==
    \E code \in NodeCodes, logit_update \in NodeUpdates :
        NodeCall("updateNodeValue", [code |-> code, logit |-> logit_update], updateNodeValue(tree, code, logit_update))

NodeSet ==
    \E code \in NodeCodes, logit_value \in NodeValues :
        NodeCall("setNodeValue", [code |-> code, logit |-> logit_value], setNodeValue(tree, code, logit_value))

Prune ==
    /\ tree' = pruneTree(tree)
    /\ out' = [op |-> "prune", call |-> << >>, before |-> tree]
    /\ UNCHANGED << twin, ref, ops, stream >>

EnableChangeDetection ==
    \E enable \in BOOLEAN :
        /\ tree' = enableChangeDetection(tree, enable)
        /\ out' = [op |-> "enableChangeDetection", call |-> enable, before |-> tree]
        /\ UNCHANGED << twin, ref, ops, stream >>

ResetChangeDetection ==
    /\ tree' = resetChangeDetection(tree)
    /\ out' = [op |-> "resetChangeDetection", call |-> << >>, before |-> tree]
    /\ UNCHANGED << twin, ref, ops, stream >>

GetNode ==
    \E code \in NodeCodes, return_nullptr \in BOOLEAN :
        /\ out' = [op |-> "getNode", call |-> [code |-> code, return_nullptr |-> return_nullptr], before |-> tree,
                   result |-> getNode(tree, code, return_nullptr)]
        /\ UNCHANGED << tree, twin, ref, ops, stream >>

\* the log-odds values the thresholds are set to
ThresholdValues == { -5, -2, 0, 4 }

SetOccupancyThresLog ==
    \E logit_value \in ThresholdValues :
        /\ ref' = setOccupancyThresLog(ref, logit_value)
        /\ out' = [op |-> "setOccupancyThresLog", call |-> logit_value, before |-> tree]
        /\ UNCHANGED << tree, twin, ops, stream >>

SetFreeThresLog ==
    \E logit_value \in ThresholdValues :
        /\ ref' = setFreeThresLog(ref, logit_value)
        /\ out' = [op |-> "setFreeThresLog", call |-> logit_value, before |-> tree]
        /\ UNCHANGED << tree, twin, ops, stream >>

NextNode ==
    \/ NodeUpdate
    \/ NodeSet
    \/ Prune
    \/ EnableChangeDetection
    \/ ResetChangeDetection

SpecNode == InitNode /\ [][NextNode]_vars

\* an update before a query or a threshold is set
QueryUpdate ==
    \E code \in NodeCodes, logit_update \in NodeUpdates :
        /\ ref = ConstructedThresholds
        /\ ops < MaxNodeOps
        /\ ops' = ops + 1
        /\ tree' = updateNodeValue(tree, code, logit_update)
        /\ out' = NoCall
        /\ UNCHANGED << twin, ref, stream >>

NextQuery ==
    \/ QueryUpdate
    \/ GetNode
    \/ SetOccupancyThresLog
    \/ SetFreeThresLog

SpecQuery == InitNode /\ [][NextQuery]_vars

\* ------------------------------------------------------------------------
\* C22: change detection
\* ------------------------------------------------------------------------

\* whether the call recorded in out returned before updateNodeValueRecurs
ShortCircuited ==
    LET node == getNode(out.before, out.call.code, FALSE).node
    IN  IF out.op = "updateNodeValue"
        THEN \/ (0 <= out.call.logit /\ node.logit >= clamping_thres_max_log_)
             \/ (0 >= out.call.logit /\ node.logit <= clamping_thres_min_log_)
        ELSE clamp(out.call.logit, clamping_thres_min_log_, clamping_thres_max_log_) = node.logit

\* the summary of the tree at a code of depth 1 or more
SummaryAt(t, code) ==
    LET node == getNode(t, code, FALSE).node
    IN  << node.logit, node.contains_free, node.contains_unknown >>

Ancestors(code) == { toDepth(code, d) : d \in (code.depth + 1)..depth_levels_ }

\* the target code and the code of every ancestor whose summary the call changed
TargetAndChangedAncestors ==
    { out.call.code } \cup { a \in Ancestors(out.call.code) : SummaryAt(out.before, a) # SummaryAt(tree, a) }

UpdateOrSet == out.op \in { "updateNodeValue", "setNodeValue" }

\* C22: with change detection enabled, an updateNodeValue / setNodeValue call
\* that is not short-circuited adds to an empty change set exactly the target
\* code and the codes of the ancestors whose summary changed; with change
\* detection disabled a call adds nothing; resetChangeDetection empties the set
C22_ChangedCodes ==
    /\ (UpdateOrSet /\ ~ShortCircuited /\ out.before.change_detection_enabled_ /\ out.before.changed_codes_ = {}) =>
            tree.changed_codes_ = TargetAndChangedAncestors
    /\ (UpdateOrSet /\ ~out.before.change_detection_enabled_) => tree.changed_codes_ = out.before.changed_codes_
    /\ out.op = "resetChangeDetection" => tree.changed_codes_ = {}

\* C22 for the targets at depth 0
C22_LeafTargets == (UpdateOrSet /\ out.call.code.depth = 0) => C22_ChangedCodes

\* the codes a call adds are the target, ancestors of it and codes below it
C22_TargetAncestorsAndBelow ==
    (UpdateOrSet /\ ~ShortCircuited /\ out.before.change_detection_enabled_ /\ out.before.changed_codes_ = {}) =>
        /\ out.call.code \in tree.changed_codes_
        /\ \A c \in tree.changed_codes_ :
            c \in Ancestors(out.call.code) \/ toDepth(c, out.call.code.depth) = out.call.code

\* with change detection disabled no call adds a code, and
\* resetChangeDetection leaves the set empty
C22_DisabledAndReset ==
    /\ (UpdateOrSet /\ ~out.before.change_detection_enabled_) => tree.changed_codes_ = out.before.changed_codes_
    /\ out.op = "resetChangeDetection" => tree.changed_codes_ = {}

\* every code a call adds is the target or one of its ancestors
C22_NothingBelowTarget ==
    (UpdateOrSet /\ ~ShortCircuited /\ out.before.change_detection_enabled_ /\ out.before.changed_codes_ = {}) =>
        tree.changed_codes_ \subseteq ({ out.call.code } \cup Ancestors(out.call.code))

\* the target and every ancestor whose summary changed are added
C22_ChangedAreAdded ==
    (UpdateOrSet /\ ~ShortCircuited /\ out.before.change_detection_enabled_) =>
        TargetAndChangedAncestors \subseteq tree.changed_codes_

\* ------------------------------------------------------------------------
\* C29: an additive update at an inner depth
\* ------------------------------------------------------------------------

\* the logit getNode reads for a depth-0 cell
CellLogit(t, x) == getNode(t, x, FALSE).node.logit

\* C29: after updateNodeValue(code, D) with code at depth 1 or more, every
\* depth-0 cell x below code reads clamp(old(x) + D)
C29_InnerUpdateActsOnCells ==
    (out.op = "updateNodeValue" /\ out.call.code.depth >= 1) =>
        \A x \in Descendants(out.call.code) :
            CellLogit(tree, x) = clamp(CellLogit(out.before, x) + out.call.logit,
                                       clamping_thres_min_log_, clamping_thres_max_log_)

\* C29 for the trees whose all_children_same flags agree with their child
\* blocks and whose automatic pruning is enabled
C29_OnSoundTrees == (out.op = "updateNodeValue" /\ sameIffNoBlock(out.before) /\ out.before.automatic_pruning_enabled_) => C29_InnerUpdateActsOnCells

\* C29 for a target without children (every cell below it reads one logit)
C29_CollapsedTarget ==
    (out.op = "updateNodeValue" /\ out.call.code.depth >= 1 /\ sameIffNoBlock(out.before)
        /\ \A x \in Descendants(out.call.code) : CellLogit(out.before, x) = CellLogit(out.before, out.call.code)) =>
            C29_InnerUpdateActsOnCells

\* C29 for a call that is not short-circuited and leaves the target occupied
C29_OccupiedAfter ==
    (out.op = "updateNodeValue" /\ out.call.code.depth >= 1 /\ sameIffNoBlock(out.before) /\ ~ShortCircuited
        /\ isOccupiedLog(clamp(CellLogit(out.before, out.call.code) + out.call.logit,
                               clamping_thres_min_log_, clamping_thres_max_log_))) =>
            C29_InnerUpdateActsOnCells

\* ------------------------------------------------------------------------
\* C24: prune()
\* ------------------------------------------------------------------------

\* the inner nodes of t that keep a child block of eight leaves with one logit
UniformBlocks(t) == { n \in AllocatedInner(t) : hasBlock(n.node) /\ isNodeCollapsible(n.node.children, n.depth) }

\* the counters of t are the numbers of nodes allocated in t
CountersMatch(t) ==
    /\ t.num_inner_nodes_ = CountNodes(t.root_, depth_levels_, "inner")
    /\ t.num_inner_leaf_nodes_ = CountNodes(t.root_, depth_levels_, "inner_leaf")
    /\ t.num_leaf_nodes_ = CountNodes(t.root_, depth_levels_, "leaf")

\* C24: after prune() no inner node keeps a child block of eight leaves with
\* one logit and the counters are those of the nodes left; on a tree without
\* such a block prune() changes nothing
C24_PruneCollapses ==
    out.op = "prune" =>
        /\ UniformBlocks(tree) = {}
        /\ CountersMatch(out.before) => CountersMatch(tree)
        /\ UniformBlocks(out.before) = {} => tree = out.before

\* prune() on a tree without a uniform block changes no node and no counter
C24_PruneIdempotent == (out.op = "prune" /\ UniformBlocks(out.before) = {}) => tree = out.before

\* prune() has returned on a tree without a uniform block that holds nodes
C24_PrunedTwice == out.op = "prune" /\ UniformBlocks(out.before) = {} /\ hasBlock(tree.root_)

\* with automatic pruning enabled since construction prune() finds no uniform block
C24_NothingToPrune == (out.op = "prune" /\ tree.automatic_pruning_enabled_) => UniformBlocks(tree) = {}

\* ------------------------------------------------------------------------
\* C28: getNode on a collapsed ancestor
\* ------------------------------------------------------------------------

RECURSIVE stoppedAt(_, _, _)
\* the depth of the first node without children on the way from current_node
\* down to code, 0 - 1 when the way reaches the depth of code
stoppedAt(current_node, depth, code) ==
    IF depth > code.depth
    THEN IF ~hasChildren(current_node)
         THEN depth
         ELSE stoppedAt(current_node.children[getChildIdx(code, depth - 1) + 1], depth - 1, code)
    ELSE 0 - 1

\* the depth at which the last getNode call stopped above its code
StopDepth == stoppedAt(out.before.root_, depth_levels_, out.call.code)

\* the last call was getNode and stopped at a collapsed ancestor of its code
StoppedAbove == out.op = "getNode" /\ StopDepth > out.call.code.depth

\* the storage of the ancestor the last getNode call stopped at
AncestorStorage == getNode(out.before, toDepth(out.call.code, StopDepth), FALSE).node

\* C28: getNode stopped at a collapsed ancestor of depth a returns the storage
\* of the ancestor with the code code.toDepth(a), the code of getRoot() for a
\* tree collapsed at the root, and the null sentinel with return_nullptr
C28_GetNodeCollapsed ==
    StoppedAbove =>
        IF out.call.return_nullptr
        THEN out.result.node = NullPtr
        ELSE /\ out.result.node = AncestorStorage
             /\ out.result.code = toDepth(out.call.code, StopDepth)
             /\ StopDepth = depth_levels_ => out.result.code = Code(0, depth_levels_)

\* with return_nullptr a getNode call that stops above its code returns the null sentinel
C28_NullSentinel == (StoppedAbove /\ out.call.return_nullptr) => out.result.node = NullPtr

\* without return_nullptr the Node returned refers to the storage of the ancestor
C28_RefersToAncestor == (StoppedAbove /\ ~out.call.return_nullptr) => out.result.node = AncestorStorage

\* without return_nullptr the code returned is the code of the ancestor one level above the node returned
C28_CodeOneLevelAbove ==
    (StoppedAbove /\ ~out.call.return_nullptr) =>
        /\ out.result.code = toDepth(out.call.code, StopDepth + 1)
        /\ out.result.code.depth = StopDepth + 1

\* a getNode call that reaches the depth of its code returns the code it was given
C28_ReachedCode == (out.op = "getNode" /\ StopDepth < 0) => out.result.code = out.call.code

\* getNode has stopped at a collapsed ancestor below the root
C28_StoppedBelowRoot == StoppedAbove /\ ~out.call.return_nullptr /\ StopDepth < depth_levels_

\* getNode has stopped at the root of a collapsed tree
C28_StoppedAtRoot == StoppedAbove /\ ~out.call.return_nullptr /\ StopDepth = depth_levels_

\* ------------------------------------------------------------------------
\* C23: the cached flags after a threshold is set
\* ------------------------------------------------------------------------

\* the last call set a threshold
ThresholdSet == out.op \in { "setOccupancyThresLog", "setFreeThresLog" }

\* the flags of every allocated inner node of t are those of the cells below it under the thresholds
FlagsMatch(t, thresholds) ==
    \A n \in AllocatedInner(t) :
        /\ n.node.contains_free <=> (\E value \in CellLogits(n.node, n.depth) : value < thresholds.free_thres_log_)
        /\ n.node.contains_unknown <=>
               (\E value \in CellLogits(n.node, n.depth) :
                    thresholds.free_thres_log_ <= value /\ value <= thresholds.occupancy_thres_log_)

\* C23: after a threshold setter returns, contains_free and contains_unknown
\* of every inner node are those of its descendant cells under the new thresholds
C23_FlagsFollowThresholds == ThresholdSet => FlagsMatch(tree, ref)

\* the same for trees whose flags were consistent with the constructed thresholds
C23_FromConsistentFlags == (ThresholdSet /\ FlagsMatch(tree, ConstructedThresholds)) => FlagsMatch(tree, ref)

\* a threshold setter stores the value it is given
C23_ThresholdStored ==
    /\ out.op = "setOccupancyThresLog" => ref.occupancy_thres_log_ = out.call
    /\ out.op = "setFreeThresLog" => ref.free_thres_log_ = out.call

\* a threshold setter changes no node, no flag and no counter of the tree
C23_TreeUntouched == ThresholdSet => tree = out.before

\* a threshold has been set to a new value on a tree that holds updated cells
C23_ThresholdMoved == ThresholdSet /\ ref # ConstructedThresholds /\ hasBlock(tree.root_)

\* ------------------------------------------------------------------------
\* Coordinates and keys: coordToKeyChecked applied to coordinates inside, on
\* and outside the bounds of the map, with the bounding-box limit off or on.
\* ref holds the coordinate, in half voxels.  The boxes drawn do not reach
\* below getMin.
\* ------------------------------------------------------------------------

\* one axis of the coordinates: below the map, its lower bound, inside, its upper bound, above
KeyAxis == { -5, -4, -3, 0, 1, 3, 4, 6 }

KeyCoords == { << x, y, z >> : x \in KeyAxis, y \in KeyAxis, z \in KeyAxis }

\* a box that reaches above getMax
WideBBXMax == << 6, 6, 6 >>

setBBXMin(t, min_) == [t EXCEPT !.bbx_min_ = min_]

setBBXMax(t, max_) == [t EXCEPT !.bbx_max_ = max_]

enableBBXLimit(t, enable) == [t EXCEPT !.bbx_limit_enabled_ = enable]

\* coordToKeyChecked(coord, key, depth): what it returns and the key it assigns
coordToKeyChecked(t, coord, depth) ==
    IF ~inBBX(t, coord)
    THEN [returned |-> FALSE]
    ELSE [returned |-> TRUE, key |-> coordToKey(coord, depth)]

InitKey ==
    /\ tree = OctreeBase(TRUE)
    /\ twin = OctreeBase(FALSE)
    /\ ref \in KeyCoords
    /\ ops = 0
    /\ stream = << >>
    /\ out = NoCall

SetBBXMin ==
    \E min_ \in { BBXMin, getMin } :
        /\ tree' = setBBXMin(tree, min_)
        /\ out' = NoCall
        /\ UNCHANGED << twin, ref, ops, stream >>

SetBBXMax ==
    \E max_ \in { BBXMax, getMax, WideBBXMax } :
        /\ tree' = setBBXMax(tree, max_)
        /\ out' = NoCall
        /\ UNCHANGED << twin, ref, ops, stream >>

EnableBBXLimit ==
    \E enable \in BOOLEAN :
        /\ tree' = enableBBXLimit(tree, enable)
        /\ out' = NoCall
        /\ UNCHANGED << twin, ref, ops, stream >>

\* coordToKeyChecked, and keyToCoord of the key when one is assigned
CoordToKeyChecked ==
    \E depth \in 0..depth_levels_ :
        \E r \in { coordToKeyChecked(tree, ref, depth) } :
            /\ out' = [op |-> "coordToKeyChecked", call |-> [coord |-> ref, depth |-> depth], before |-> tree,
                       result |-> r, coord |-> IF r.returned THEN keyToCoord(r.key, depth) ELSE NullPtr]
            /\ UNCHANGED << tree, twin, ref, ops, stream >>

NextKey ==
    \/ SetBBXMin
    \/ SetBBXMax
    \/ EnableBBXLimit
    \/ CoordToKeyChecked

SpecKey == InitKey /\ [][NextKey]_vars

\* ------------------------------------------------------------------------
\* C25: coordinate/key round trip
\* ------------------------------------------------------------------------

\* the last call was coordToKeyChecked and it accepted its coordinate
Converted == out.op = "coordToKeyChecked" /\ out.result.returned

\* the coordinate of the key is within the half size of the depth of the coordinate converted
WithinHalfSize == \A i \in 1..3 : Abs(out.coord[i] - out.call.coord[i]) <= getNodeHalfSize(out.call.depth)

\* the coordinate lies within getMin and getMax
InMap(coord) == \A i \in 1..3 : getMin[i] <= coord[i] /\ coord[i] <= getMax[i]

\* C25: for every coordinate accepted by inBBX and every depth d in
\* 0..depth_levels, keyToCoord(coordToKey(c, d), d) differs from c by at most
\* getNodeHalfSize(d) in each component
C25_RoundTrip == Converted => WithinHalfSize

\* the round trip of the coordinates within getMin and getMax, the upper bound included
C25_RoundTripInMap == (Converted /\ InMap(out.call.coord)) => WithinHalfSize

\* the round trip with the bounding-box limit disabled
C25_RoundTripLimitDisabled == (Converted /\ ~out.before.bbx_limit_enabled_) => WithinHalfSize

\* a coordinate accepted by inBBX lies in the map when the limit is disabled
C25_AcceptedInMap == (Converted /\ ~out.before.bbx_limit_enabled_) => InMap(out.call.coord)

\* the upper bound of the map has been converted at the depth of the root
C25_UpperBoundConverted == Converted /\ out.call.coord = getMax /\ out.call.depth = depth_levels_

\* a coordinate above the map has been accepted
C25_AcceptedAboveMap == Converted /\ ~InMap(out.call.coord)

\* ------------------------------------------------------------------------
\* C26: the range of the keys and the key of a cell
\* ------------------------------------------------------------------------

\* the last call converted a coordinate with the bounding-box limit disabled
ConvertedInMap == Converted /\ ~out.before.bbx_limit_enabled_

KeysInRange == \A i \in 1..3 : 0 <= out.result.key[i] /\ out.result.key[i] < Pow2(depth_levels_)

\* two coordinates of one axis lie in the same cell of the depth; the cell of
\* the depth of the root is the whole map
SameCell1(a, b, depth) == depth = depth_levels_ \/ a \div getNodeSize(depth) = b \div getNodeSize(depth)

\* every coordinate of the map in the cell of the coordinate converted gets its key
SameCellSameKey ==
    \A i \in 1..3 : \A b \in KeyAxis :
        (getMin[i] <= b /\ b <= getMax[i] /\ SameCell1(out.call.coord[i], b, out.call.depth))
            => coordToKey1(b, out.call.depth) = out.result.key[i]

\* C26: with the box limit disabled every component of coordToKey(c, d) lies
\* in [0, 2^depth_levels) and the coordinates of one depth-d cell get one key
C26_KeyRangeAndCell == ConvertedInMap => (KeysInRange /\ SameCellSameKey)

\* the keys of coordinates below getMax at depths below the root are in range
C26_RangeBelowUpperBound ==
    (ConvertedInMap /\ out.call.depth < depth_levels_ /\ \A i \in 1..3 : out.call.coord[i] < getMax[i]) => KeysInRange

\* at depths below the root the coordinates of one cell get one key
C26_SameKeyBelowRoot == (ConvertedInMap /\ out.call.depth < depth_levels_) => SameCellSameKey

\* the range alone
C26_KeyRange == ConvertedInMap => KeysInRange

\* one key per cell alone
C26_OneKeyPerCell == ConvertedInMap => SameCellSameKey

\* the upper bound of the map has been converted at depth 0
C26_UpperBoundKey == ConvertedInMap /\ out.call.coord = getMax /\ out.call.depth = 0

====
